---- MODULE Spec2Model ----
(***************************************************************************)
(* A model of debugtutor's static checker (parser.py, CodeParser) and of   *)
(* its completion client's request loop (llm_utils.py, LLMProcessor).      *)
(*                                                                         *)
(* Text is a sequence of one-character strings; every text operation       *)
(* (split, strip, startswith, endswith, in) is computed on characters.     *)
(***************************************************************************)
EXTENDS Integers, Sequences, FiniteSets, TLC

VARIABLES
    code,        \* parse_code's argument `code`
    language,    \* parse_code's argument `language`
    astOutcome,  \* what ast.parse does with `code` (the Python runtime's answer)
    ppc,         \* "input" before parse_code is called, "done" after it
    presult,     \* what parse_code returned (or the exception that left it)
    api_key,     \* self.api_key: <<>> is None, <<k>> is the string k
    max_retries, \* _make_api_request's argument max_retries
    stream,      \* _make_api_request's argument stream
    rpc,         \* where _make_api_request is: "call", "loop", "returned", "raised"
    attempt,     \* the loop variable of _make_api_request
    requests,    \* how many times requests.post was called
    sleeps,      \* the arguments of the time.sleep calls, in order
    responses,   \* what the backend did with each request, in order
    rresult,     \* what _make_api_request returned or raised
    authorization, \* self.headers["Authorization"]: <<>> is no entry, <<t>> is
                 \* the entry "Bearer t"
    acquired,    \* how many responses requests.post handed over with stream=True
                 \* whose body _make_api_request neither read nor closed
    gpc,         \* where the generator of _make_streaming_request is: "created",
                 \* "running", "suspended" (at its yield), "done", "failed", "closed"
    feed,        \* the event feed of the 200 response: its lines and how it ends
    pos,         \* how many times the loop has asked response.iter_lines() for a line
    fragments,   \* the values the generator has yielded, in order
    closes,      \* how many times response.close() was called
    gresult,     \* the exception that left the generator
    conversation_history, \* st.session_state.conversation_history
    history_before, \* conversation_history when the last handler or call began
    prompt,      \* the follow-up prompt handed to the request layer
    shown        \* what the last handler of the application ended in

pvars == <<code, language, astOutcome, ppc, presult>>

rvars == <<api_key, max_retries, stream, rpc, attempt, requests, sleeps,
           responses, rresult, authorization, acquired>>

svars == <<gpc, feed, pos, fragments, closes, gresult>>

avars == <<conversation_history, history_before, prompt, shown>>

vars == <<pvars, rvars, svars, avars>>

-----------------------------------------------------------------------------
(* Bounds of the model *)

\* longest Go/Rust/C++/Java/Python text, counted in lexemes of the vocabulary
MaxLexemes == 3
\* longest JavaScript text drawn from the bracket vocabulary, in characters
MaxBracketLen == 4
\* longest JavaScript text drawn from the string-literal vocabulary
MaxStringLen == 6
\* largest line number the Python runtime reports in a SyntaxError
MaxLineno == 2
\* largest max_retries a caller passes to _make_api_request
MaxRetries == 3
\* longest event feed of a streaming response, in lines
MaxFeed == 2
\* longest conversation history handed to a follow-up call, in turns
MaxHistory == 7
\* the application's handlers run while the history has fewer turns than this
MaxTurns == 3

-----------------------------------------------------------------------------
(* Characters and text operations (Python's str methods) *)

NL == "\n"
BACKSLASH == "\\"
DQUOTE == "\""
\* the backquote character, which a TLA+ string cannot hold
BACKTICK == "<backquote>"

\* the characters str.strip() removes, among those of the vocabularies
Whitespace == {" ", NL}

RECURSIVE LStrip(_)
LStrip(s) ==
    IF s = <<>> THEN s
    ELSE IF Head(s) \in Whitespace THEN LStrip(Tail(s)) ELSE s

RECURSIVE RStrip(_)
RStrip(s) ==
    IF s = <<>> THEN s
    ELSE IF s[Len(s)] \in Whitespace THEN RStrip(SubSeq(s, 1, Len(s) - 1)) ELSE s

\* s.strip()
strip(s) == RStrip(LStrip(s))

RECURSIVE SplitAcc(_, _, _, _)
SplitAcc(s, sep, cur, acc) ==
    IF s = <<>> THEN Append(acc, cur)
    ELSE IF Head(s) = sep THEN SplitAcc(Tail(s), sep, <<>>, Append(acc, cur))
    ELSE SplitAcc(Tail(s), sep, Append(cur, Head(s)), acc)

\* s.split('\n'): the lines of s, one more than its newline characters
split_lines(s) == SplitAcc(s, NL, <<>>, <<>>)

\* s.startswith(p)
startswith(s, p) == Len(s) >= Len(p) /\ SubSeq(s, 1, Len(p)) = p

\* s.endswith(p)
endswith(s, p) == Len(s) >= Len(p) /\ SubSeq(s, Len(s) - Len(p) + 1, Len(s)) = p

\* p in s
contains(s, p) == \E i \in 1..(Len(s) - Len(p) + 1) : SubSeq(s, i, i + Len(p) - 1) = p

\* the number of occurrences of character c in s
RECURSIVE CountChar(_, _)
CountChar(s, c) ==
    IF s = <<>> THEN 0
    ELSE (IF Head(s) = c THEN 1 ELSE 0) + CountChar(Tail(s), c)

\* the texts made of at most n lexemes of vocabulary V
RECURSIVE Concat(_)
Concat(ls) == IF ls = <<>> THEN <<>> ELSE Head(ls) \o Concat(Tail(ls))

SeqsUpTo(V, n) == UNION {[1..k -> V] : k \in 0..n}

Texts(V, n) == {Concat(ls) : ls \in SeqsUpTo(V, n)}

-----------------------------------------------------------------------------
(* Python values *)

None == "None"

\* an optional value: <<>> is None, <<v>> is v

\* language.lower(), on the identifiers the model draws
lower(l) ==
    CASE l = "Python" -> "python"
      [] l = "GO" -> "go"
      [] l = "JavaScript" -> "javascript"
      [] l = "Ruby" -> "ruby"
      [] OTHER -> l

-----------------------------------------------------------------------------
(* The string literals of parser.py, as character sequences *)

S_import == <<"i", "m", "p", "o", "r", "t", " ">>
S_from == <<"f", "r", "o", "m", " ">>
S_print == <<"p", "r", "i", "n", "t">>
S_package == <<"p", "a", "c", "k", "a", "g", "e", " ">>
S_int_main == <<"i", "n", "t", " ", "m", "a", "i", "n">>
S_void_main == <<"v", "o", "i", "d", " ", "m", "a", "i", "n">>
S_include == <<"#", "i", "n", "c", "l", "u", "d", "e">>
S_public_class == <<"p", "u", "b", "l", "i", "c", " ", "c", "l", "a", "s", "s">>
S_class == <<"c", "l", "a", "s", "s">>
S_return == <<"r", "e", "t", "u", "r", "n">>
S_if == <<"i", "f">>
S_for == <<"f", "o", "r">>
S_while == <<"w", "h", "i", "l", "e">>
S_function == <<"f", "u", "n", "c", "t", "i", "o", "n">>
S_public == <<"p", "u", "b", "l", "i", "c">>
S_private == <<"p", "r", "i", "v", "a", "t", "e">>
S_as == <<" ", "a", "s", " ">>
S_slashslash == <<"/", "/">>
S_slashstar == <<"/", "*">>

\* s.startswith(t) / s.endswith(t) for a tuple t of prefixes / suffixes
startswith_any(s, ps) == \E p \in ps : startswith(s, p)

endswith_any(s, ps) == \E p \in ps : endswith(s, p)

-----------------------------------------------------------------------------
(* CodeParser: the result dictionary and the per-language routines *)

\* the dictionary every routine returns
Result(errs, warns, tree, lang, n) ==
    [syntax_errors |-> errs, warnings |-> warns, ast |-> tree,
     language |-> lang, line_count |-> n]

\* the keys of self.supported_languages
supported_languages ==
    {"python", "javascript", "typescript", "cpp", "java", "go", "rust"}

\* the members of S among i..n, ascending
RECURSIVE Ascending(_, _, _)
Ascending(S, i, n) ==
    IF i > n THEN <<>>
    ELSE (IF i \in S THEN <<i>> ELSE <<>>) \o Ascending(S, i + 1, n)

(* _parse_javascript *)

\* the scan's variables before the first character
ScanStart ==
    [brace_count |-> 0, paren_count |-> 0, bracket_count |-> 0,
     in_string |-> FALSE, string_char |-> None]

\* the close test of the scan, for the character at index j (from 1) of line
\* while inside a string opened by string_char
ClosesString(line, j, string_char) ==
    line[j] = string_char /\ (j = 1 \/ line[j - 1] # BACKSLASH)

\* one iteration of the inner loop: the character at index j (from 1) of line
ScanChar(st, line, j) ==
    LET char == line[j] IN
    IF ~st.in_string THEN
        IF char \in {DQUOTE, "'", BACKTICK}
            THEN [st EXCEPT !.in_string = TRUE, !.string_char = char]
        ELSE IF char = "{" THEN [st EXCEPT !.brace_count = @ + 1]
        ELSE IF char = "}" THEN [st EXCEPT !.brace_count = @ - 1]
        ELSE IF char = "(" THEN [st EXCEPT !.paren_count = @ + 1]
        ELSE IF char = ")" THEN [st EXCEPT !.paren_count = @ - 1]
        ELSE IF char = "[" THEN [st EXCEPT !.bracket_count = @ + 1]
        ELSE IF char = "]" THEN [st EXCEPT !.bracket_count = @ - 1]
        ELSE st
    ELSE IF ClosesString(line, j, st.string_char)
        THEN [st EXCEPT !.in_string = FALSE, !.string_char = None]
    ELSE st

RECURSIVE ScanLine(_, _, _)
ScanLine(st, line, j) ==
    IF j > Len(line) THEN st ELSE ScanLine(ScanChar(st, line, j), line, j + 1)

\* the outer loop: the scan's variables after lines i.. of lines
RECURSIVE ScanLines(_, _, _)
ScanLines(st, lines, i) ==
    IF i > Len(lines) THEN st
    ELSE ScanLines(ScanLine(st, lines[i], 1), lines, i + 1)

\* a faulty test: the statement keywords and comment openers are not looked at
JsMissingSemicolon_NoKeywordTest(line_stripped) ==
    /\ line_stripped # <<>>
    /\ ~endswith_any(line_stripped, {<<";">>, <<"{">>, <<"}">>, <<")">>, <<",">>})
    /\ contains(line_stripped, <<"=">>)

\* the missing-semicolon test of a stripped JavaScript line
JsMissingSemicolon(line_stripped) ==
    /\ line_stripped # <<>>
    /\ ~endswith_any(line_stripped, {<<";">>, <<"{">>, <<"}">>, <<")">>, <<",">>})
    /\ ~startswith_any(line_stripped,
            {S_if, S_for, S_while, S_function, S_class, S_slashslash, S_slashstar})
    /\ contains(line_stripped, <<"=">>)

JsSemicolonWarning(i) ==
    [line |-> i, message |-> <<"Consider adding semicolon at end of statement">>,
     type |-> "MissingSemicolon"]

\* a faulty emission: only a positive counter is reported
Unmatched_PositiveOnly(what, kind, count, n) ==
    IF count > 0
    THEN <<[line |-> n, message |-> <<what, count, " extra ", "opening">>,
            type |-> kind]>>
    ELSE <<>>

\* the warnings the loop appends, in line order
JsWarnings(lines) ==
    LET idx == Ascending({i \in 1..Len(lines) : JsMissingSemicolon(strip(lines[i]))},
                         1, Len(lines))
    IN  [k \in 1..Len(idx) |-> JsSemicolonWarning(idx[k])]

\* the diagnostic appended for a nonzero counter
Unmatched(what, kind, count, n) ==
    IF count # 0
    THEN <<[line |-> n,
            message |-> <<what, count, " extra ",
                          IF count > 0 THEN "opening" ELSE "closing">>,
            type |-> kind]>>
    ELSE <<>>

_parse_javascript(c) ==
    LET lines == split_lines(c)
        st == ScanLines(ScanStart, lines, 1)
    IN  Result(Unmatched("Unmatched braces: ", "UnmatchedBraces",
                         st.brace_count, Len(lines))
               \o Unmatched("Unmatched parentheses: ", "UnmatchedParentheses",
                            st.paren_count, Len(lines))
               \o Unmatched("Unmatched brackets: ", "UnmatchedBrackets",
                            st.bracket_count, Len(lines)),
               JsWarnings(lines),
               None, "javascript", Len(lines))

\* a faulty _parse_go: the package test reads the line as it is, not stripped
_parse_go_Unstripped(c) ==
    LET lines == split_lines(c)
        has_package == \E i \in 1..Len(lines) : startswith(lines[i], S_package)
    IN  Result(IF ~has_package
               THEN <<[line |-> 1, message |-> <<"Missing package declaration">>,
                       type |-> "MissingPackage"]>>
               ELSE <<>>,
               <<>>, None, "go", Len(lines))

(* _parse_go *)

_parse_go(c) ==
    LET lines == split_lines(c)
        has_package == \E i \in 1..Len(lines) : startswith(strip(lines[i]), S_package)
    IN  Result(IF ~has_package
               THEN <<[line |-> 1, message |-> <<"Missing package declaration">>,
                       type |-> "MissingPackage"]>>
               ELSE <<>>,
               <<>>, None, "go", Len(lines))

(* _parse_rust *)

_parse_rust(c) == Result(<<>>, <<>>, None, "rust", Len(split_lines(c)))

(* _parse_cpp *)

CppMissingSemicolon(line_stripped) ==
    /\ line_stripped # <<>>
    /\ ~endswith_any(line_stripped, {<<";">>, <<"{">>, <<"}">>, <<":">>, <<"#">>})
    /\ ~startswith_any(line_stripped,
            {S_if, S_for, S_while, S_class, S_slashslash, S_slashstar, <<"#">>})
    /\ contains(line_stripped, <<"=">>)

PossibleSemicolonWarning(i) ==
    [line |-> i, message |-> <<"Possible missing semicolon">>,
     type |-> "MissingSemicolon"]

CppWarnings(lines) ==
    LET idx == Ascending({i \in 1..Len(lines) : CppMissingSemicolon(strip(lines[i]))},
                         1, Len(lines))
    IN  [k \in 1..Len(idx) |-> PossibleSemicolonWarning(idx[k])]

CppIsInclude(line_stripped) == startswith(line_stripped, S_include)

CppInclude(lines, i) == strip(lines[i])

_parse_cpp(c) ==
    LET lines == split_lines(c)
        has_main == \E i \in 1..Len(lines) :
                        \/ contains(strip(lines[i]), S_int_main)
                        \/ contains(strip(lines[i]), S_void_main)
        inc == Ascending({i \in 1..Len(lines) : CppIsInclude(strip(lines[i]))},
                         1, Len(lines))
    IN  [syntax_errors |-> <<>>,
         warnings |->
            CppWarnings(lines)
            \o (IF ~has_main /\ Len(lines) > 5
                THEN <<[line |-> 1, message |-> <<"No main function found">>,
                        type |-> "NoMainFunction"]>>
                ELSE <<>>),
         ast |-> None,
         language |-> "cpp",
         line_count |-> Len(lines),
         includes |-> [k \in 1..Len(inc) |-> CppInclude(lines, inc[k])]]

(* _parse_java *)

JavaMissingSemicolon(line_stripped) ==
    /\ line_stripped # <<>>
    /\ ~endswith_any(line_stripped, {<<";">>, <<"{">>, <<"}">>, <<")">>, <<":">>})
    /\ ~startswith_any(line_stripped,
            {S_if, S_for, S_while, S_public, S_private, S_class,
             S_slashslash, S_slashstar})
    /\ (contains(line_stripped, <<"=">>) \/ contains(line_stripped, S_return))

JavaWarnings(lines) ==
    LET idx == Ascending({i \in 1..Len(lines) : JavaMissingSemicolon(strip(lines[i]))},
                         1, Len(lines))
    IN  [k \in 1..Len(idx) |-> PossibleSemicolonWarning(idx[k])]

_parse_java(c) ==
    LET lines == split_lines(c)
        has_class == \E i \in 1..Len(lines) :
                        \/ startswith(strip(lines[i]), S_public_class)
                        \/ startswith(strip(lines[i]), S_class)
    IN  Result(<<>>,
               JavaWarnings(lines)
               \o (IF ~has_class /\ Len(lines) > 3
                   THEN <<[line |-> 1, message |-> <<"No class declaration found">>,
                           type |-> "NoClass"]>>
                   ELSE <<>>),
               None, "java", Len(lines))

(* _parse_python and its warning pass *)

Lowercase == {"a", "b", "c", "d", "e", "f", "g", "h", "i", "j", "k", "l", "m", "n", "o", "p", "q", "r", "s", "t", "u", "v", "w", "x", "y", "z"}

Uppercase == {"A", "B", "C", "D", "E", "F", "G", "H", "I", "J", "K", "L", "M", "N", "O", "P", "Q", "R", "S", "T", "U", "V", "W", "X", "Y", "Z"}

Digits == {"0", "1", "2", "3", "4", "5", "6", "7", "8", "9"}

\* the characters the regular expressions' \b, [a-zA-Z_] and [a-zA-Z0-9_] know
WordChars == Lowercase \cup Uppercase \cup Digits \cup {"_"}

\* the names _check_undefined_variables never reports
Builtins ==
    {<<"p", "r", "i", "n", "t">>,
     <<"l", "e", "n">>,
     <<"s", "t", "r">>,
     <<"i", "n", "t">>,
     <<"f", "l", "o", "a", "t">>,
     <<"l", "i", "s", "t">>,
     <<"d", "i", "c", "t">>,
     <<"T", "r", "u", "e">>,
     <<"F", "a", "l", "s", "e">>,
     <<"N", "o", "n", "e">>}

\* the indices at which sep occurs in s
Occurrences(s, sep) ==
    {i \in 1..(Len(s) - Len(sep) + 1) : SubSeq(s, i, i + Len(sep) - 1) = sep}

First(S) == CHOOSE i \in S : \A j \in S : i <= j

\* s.split(sep)[0]
PrefixBefore(s, sep) ==
    IF Occurrences(s, sep) = {} THEN s
    ELSE SubSeq(s, 1, First(Occurrences(s, sep)) - 1)

\* s.split(sep, 1)[1], for a sep that occurs in s
AfterFirst(s, sep) ==
    SubSeq(s, First(Occurrences(s, sep)) + Len(sep), Len(s))

\* s.replace(old, '')
RECURSIVE Remove(_, _)
Remove(s, old) ==
    IF s = <<>> THEN s
    ELSE IF startswith(s, old) THEN Remove(SubSeq(s, Len(old) + 1, Len(s)), old)
    ELSE <<Head(s)>> \o Remove(Tail(s), old)

\* the maximal runs of word characters of s, in order
RECURSIVE WordRuns(_, _, _)
WordRuns(s, cur, acc) ==
    IF s = <<>> THEN (IF cur = <<>> THEN acc ELSE Append(acc, cur))
    ELSE IF Head(s) \in WordChars THEN WordRuns(Tail(s), Append(cur, Head(s)), acc)
    ELSE WordRuns(Tail(s), <<>>, IF cur = <<>> THEN acc ELSE Append(acc, cur))

\* re.findall(r'\b[a-zA-Z_][a-zA-Z0-9_]*\b', s)
findall_names(s) ==
    SelectSeq(WordRuns(s, <<>>, <<>>), LAMBDA w : w[1] \notin Digits)

\* re.search(r'\bprint\s+[^(]', s)
search_print(s) ==
    \E i \in Occurrences(s, S_print) :
        /\ i = 1 \/ s[i - 1] \notin WordChars
        /\ \E m \in (i + 5)..(Len(s) - 1) :
              /\ \A k \in (i + 5)..m : s[k] \in Whitespace
              /\ s[m + 1] # "("

_extract_import_name(import_line) ==
    IF startswith(import_line, S_import)
    THEN <<strip(PrefixBefore(PrefixBefore(Remove(import_line, S_import), <<".">>),
                              S_as))>>
    ELSE IF startswith(import_line, S_from)
    THEN LET parts == SplitAcc(import_line, " ", <<>>, <<>>) IN
         IF Len(parts) >= 2 THEN <<strip(PrefixBefore(parts[2], <<".">>))>> ELSE <<>>
    ELSE <<>>

_is_module_used(c, module_name) ==
    LET lines == split_lines(c) IN
    \E i \in 1..Len(lines) :
        /\ contains(lines[i], module_name)
        /\ ~startswith_any(strip(lines[i]), {S_import, S_from})

_check_undefined_variables(line, full_code) ==
    IF contains(line, <<"=">>)
    THEN LET right_side == strip(AfterFirst(line, <<"=">>))
             vars_in_line == findall_names(right_side)
         IN  SelectSeq(vars_in_line,
                LAMBDA var :
                    /\ var \notin Builtins
                    /\ ~contains(PrefixBefore(full_code, line), var \o <<" ", "=">>))
    ELSE <<>>

\* the warnings the loop body appends for line i (from 1)
PythonLineWarnings(c, lines, i) ==
    LET line_stripped == strip(lines[i])
        module_name == _extract_import_name(line_stripped)
        undefined_vars == _check_undefined_variables(line_stripped, c)
    IN  (IF /\ startswith_any(line_stripped, {S_import, S_from})
            /\ module_name # <<>>
            /\ module_name[1] # <<>>
            /\ ~_is_module_used(c, module_name[1])
         THEN <<[line |-> i,
                 message |-> <<"Potentially unused import: ", module_name[1]>>,
                 type |-> "UnusedImport"]>>
         ELSE <<>>)
        \o (IF search_print(line_stripped)
            THEN <<[line |-> i,
                    message |-> <<"Consider using print() with parentheses">>,
                    type |-> "PrintStatement"]>>
            ELSE <<>>)
        \o (IF contains(line_stripped, <<"=">>) /\ ~startswith(line_stripped, <<"#">>)
            THEN [k \in 1..Len(undefined_vars) |->
                    [line |-> i,
                     message |-> <<"Potentially undefined variable: ",
                                   undefined_vars[k]>>,
                     type |-> "UndefinedVariable"]]
            ELSE <<>>)

RECURSIVE PythonWarningsFrom(_, _, _)
PythonWarningsFrom(c, lines, i) ==
    IF i > Len(lines) THEN <<>>
    ELSE PythonLineWarnings(c, lines, i) \o PythonWarningsFrom(c, lines, i + 1)

_check_python_warnings(c) == PythonWarningsFrom(c, split_lines(c), 1)

\* a faulty `x or d`: only None, not 0, gives way to the default
OrInt_NoneOnly(opt, d) == IF opt = <<>> THEN d ELSE opt[1]

\* Python's `x or d` for an optional integer and an optional string
OrInt(opt, d) == IF opt = <<>> \/ opt[1] = 0 THEN d ELSE opt[1]

OrStr(opt, d) == IF opt = <<>> \/ opt[1] = "" THEN d ELSE opt[1]

\* an exception that leaves a routine
Raise(e) == [raised |-> e]

IsRaise(r) == "raised" \in DOMAIN r

\* a faulty _parse_python: a failure that is no SyntaxError is swallowed
_parse_python_Swallow(c, ao) ==
    LET n == Len(split_lines(c)) IN
    IF ao.kind = "ok"
    THEN Result(<<>>, _check_python_warnings(c), "Module", "python", n)
    ELSE IF ao.kind = "SyntaxError"
    THEN Result(<<[line |-> OrInt(ao.lineno, 1),
                   column |-> OrInt(ao.offset, 1),
                   message |-> <<OrStr(ao.msg, "Syntax error")>>,
                   type |-> "SyntaxError"]>>,
                <<>>, None, "python", n)
    ELSE Result(<<>>, <<>>, None, "python", n)

\* a faulty _parse_python: the warning pass runs before the parse is tried
_parse_python_WarnFirst(c, ao) ==
    LET n == Len(split_lines(c)) IN
    IF ao.kind = "ok"
    THEN Result(<<>>, _check_python_warnings(c), "Module", "python", n)
    ELSE IF ao.kind = "SyntaxError"
    THEN Result(<<[line |-> OrInt(ao.lineno, 1),
                   column |-> OrInt(ao.offset, 1),
                   message |-> <<OrStr(ao.msg, "Syntax error")>>,
                   type |-> "SyntaxError"]>>,
                _check_python_warnings(c), None, "python", n)
    ELSE Result(<<[line |-> 1,
                   message |-> <<"Parse error: ", ao.msg[1]>>,
                   type |-> "ParseError"]>>,
                _check_python_warnings(c), None, "python", n)

\* ao is what ast.parse(code) does: it returns a tree ("ok"), raises SyntaxError
\* with lineno, offset and msg, or raises another Exception with text msg
_parse_python(c, ao) ==
    LET n == Len(split_lines(c)) IN
    IF ao.kind = "ok"
    THEN Result(<<>>, _check_python_warnings(c), "Module", "python", n)
    ELSE IF ao.kind = "SyntaxError"
    THEN Result(<<[line |-> OrInt(ao.lineno, 1),
                   column |-> OrInt(ao.offset, 1),
                   message |-> <<OrStr(ao.msg, "Syntax error")>>,
                   type |-> "SyntaxError"]>>,
                <<>>, None, "python", n)
    ELSE Result(<<[line |-> 1,
                   message |-> <<"Parse error: ", ao.msg[1]>>,
                   type |-> "ParseError"]>>,
                <<>>, None, "python", n)

(* parse_code *)

\* self.supported_languages[language](code)
Dispatch(l, c, ao) ==
    CASE l = "python" -> _parse_python(c, ao)
      [] l = "javascript" -> _parse_javascript(c)
      [] l = "typescript" -> _parse_javascript(c)
      [] l = "cpp" -> _parse_cpp(c)
      [] l = "java" -> _parse_java(c)
      [] l = "go" -> _parse_go(c)
      [] l = "rust" -> _parse_rust(c)

\* a faulty parse_code: blank text is not short-circuited
parse_code_NoBlankCheck(c, lang, ao) ==
    LET l == lower(lang) IN
    IF l \notin supported_languages
    THEN Result(<<[line |-> 1, message |-> <<"Unsupported language: ", l>>]>>,
                <<>>, None, l, Len(split_lines(c)))
    ELSE LET r == Dispatch(l, c, ao) IN
         IF IsRaise(r)
         THEN Result(<<[line |-> 1, message |-> <<"Parser error: ", r.raised>>]>>,
                     <<>>, None, l, Len(split_lines(c)))
         ELSE r

parse_code(c, lang, ao) ==
    IF strip(c) = <<>>
    THEN Result(<<>>, <<>>, None, lang, 0)
    ELSE LET l == lower(lang) IN
         IF l \notin supported_languages
         THEN Result(<<[line |-> 1, message |-> <<"Unsupported language: ", l>>]>>,
                     <<>>, None, l, Len(split_lines(c)))
         ELSE LET r == Dispatch(l, c, ao) IN
              IF IsRaise(r)
              THEN Result(<<[line |-> 1, message |-> <<"Parser error: ", r.raised>>]>>,
                          <<>>, None, l, Len(split_lines(c)))
              ELSE r

-----------------------------------------------------------------------------
(* The inputs the model draws *)

Languages ==
    supported_languages \cup {"ruby", "Ruby", "Python", "GO", "JavaScript"}

\* what ast.parse can do
OptPositions == {<<>>} \cup {<<n>> : n \in 0..MaxLineno}

AstOk == [kind |-> "ok", lineno |-> <<>>, offset |-> <<>>, msg |-> <<>>]

AstOutcomes ==
    {AstOk}
    \cup [kind : {"SyntaxError"}, lineno : OptPositions, offset : OptPositions,
          msg : {<<>>, <<"">>, <<"invalid syntax">>}]
    \cup [kind : {"Exception"}, lineno : {<<>>}, offset : {<<>>},
          msg : {<<"source code string cannot contain null bytes">>}]

GenericVocab == {<<"x">>, <<" ">>, <<NL>>}

PythonVocab ==
    {<<"x">>, <<"y">>, <<" ", "=", " ">>, <<NL>>, S_import, S_print \o <<" ">>}

PythonAssignVocab ==
    {<<"x", " ", "=", " ", "y">>, <<"y", " ", "=", " ", "x">>,
     <<"x", " ", "=", " ", "y", " ", "=", " ", "1">>, <<NL>>}

GoVocab == {S_package, <<"x">>, <<" ">>, <<NL>>}

CppVocab ==
    {<<"x", "=", "1">>, <<";">>, <<NL>>, <<NL, NL, NL, NL, NL>>, S_int_main, S_include}

JavaVocab ==
    {<<"x", "=", "1">>, <<";">>, <<NL>>, <<NL, NL, NL>>, S_class, S_return}

JsBracketVocab == {<<"{">>, <<"}">>, <<"(">>, <<")">>, <<"[">>, <<"]">>, <<NL>>}

JsStringVocab == {<<"{">>, <<"}">>, <<DQUOTE>>, <<"'">>, <<BACKSLASH>>, <<NL>>}

JsStatementVocab ==
    {<<"x", "=", "1">>, <<"=">>, <<";">>, <<")">>, <<" ">>, <<NL>>, S_if, S_slashslash}

JsTexts ==
    Texts(JsBracketVocab, MaxBracketLen) \cup Texts(JsStringVocab, MaxStringLen)
    \cup Texts(JsStatementVocab, MaxLexemes)

\* the texts drawn for a language
TextsFor(lang) ==
    CASE lower(lang) = "python" ->
            Texts(PythonVocab, MaxLexemes) \cup Texts(PythonAssignVocab, MaxLexemes)
      [] lower(lang) \in {"javascript", "typescript"} -> JsTexts
      [] lower(lang) = "cpp" -> Texts(CppVocab, MaxLexemes)
      [] lower(lang) = "java" -> Texts(JavaVocab, MaxLexemes)
      [] lower(lang) = "go" -> Texts(GoVocab, MaxLexemes)
      [] OTHER -> Texts(GenericVocab, MaxLexemes)

-----------------------------------------------------------------------------
(* The static checker as a state machine: one call of parse_code *)

NoResult == [pending |-> TRUE]

\* no request is being made
RetryIdle ==
    /\ api_key = <<>>
    /\ max_retries = 0
    /\ stream = FALSE
    /\ rpc = "idle"
    /\ attempt = 0
    /\ requests = 0
    /\ sleeps = <<>>
    /\ responses = <<>>
    /\ rresult = NoResult
    /\ authorization = <<>>
    /\ acquired = 0

\* no response with an event feed has been obtained
NoFeed == [lines |-> <<>>, end |-> "unopened"]

\* no generator of _make_streaming_request exists
StreamIdle ==
    /\ gpc = "idle"
    /\ feed = NoFeed
    /\ pos = 0
    /\ fragments = <<>>
    /\ closes = 0
    /\ gresult = NoResult

\* the application has not run a handler
AppIdle ==
    /\ conversation_history = <<>>
    /\ history_before = <<>>
    /\ prompt = NoResult
    /\ shown = "nothing"

InitParser ==
    /\ RetryIdle
    /\ StreamIdle
    /\ AppIdle
    /\ language \in Languages
    /\ code \in TextsFor(language)
    /\ astOutcome \in (IF lower(language) = "python" /\ strip(code) # <<>>
                       THEN AstOutcomes ELSE {AstOk})
    /\ ppc = "input"
    /\ presult = NoResult

ParseCode ==
    /\ ppc = "input"
    /\ presult' = parse_code(code, language, astOutcome)
    /\ ppc' = "done"
    /\ UNCHANGED <<code, language, astOutcome>>
    /\ UNCHANGED <<rvars, svars, avars>>

NextParser == ParseCode

SpecParser == InitParser /\ [][NextParser]_vars

-----------------------------------------------------------------------------
(* LLMProcessor._make_api_request: the request loop *)

\* what one statement sequence ends in: a return, a `continue` after a sleep,
\* or an exception of class exc with text msg
Return(v) == [do |-> "return", value |-> v]

Continue(delay) == [do |-> "continue", sleep |-> delay]

Raising(class, text) == [do |-> "raise", exc |-> class, msg |-> text]

\* the classes `except requests.exceptions.RequestException` catches
RequestExceptions == {"Timeout", "ConnectionError", "RequestsJSONDecodeError"}

\* a faulty backoff: the delay does not grow
Backoff_Fixed(a) == 1

\* a faulty backoff: the exponent is one too large
Backoff_OffByOne(a) == 2 ^ (a + 1)

\* the delay before the retry that follows a 429 at this attempt
Backoff(a) == 2 ^ a

\* response.json().get('error', {}).get('message', '') inside its own
\* try/except: a body that is not JSON leaves no detail
ErrorDetail(resp) == IF resp.body = "not_json" THEN "" ELSE resp.error_detail

\* a faulty body: a 429 answer to the last attempt is slept on and retried
TryBody_Retry429OnLast(resp, a, limit, streaming) ==
    IF resp.kind = "timeout" THEN Raising("Timeout", <<"timed out">>)
    ELSE IF resp.kind = "connection_error"
        THEN Raising("ConnectionError", <<"connection refused">>)
    ELSE IF resp.status = 200 THEN
        IF streaming THEN Return([response |-> resp])
        ELSE IF resp.body = "not_json"
            THEN Raising(resp.json_error, <<"Expecting value">>)
        ELSE IF resp.body = "json_number"
            THEN Raising("TypeError", <<"argument of type 'int' is not iterable">>)
        ELSE IF resp.body = "ok" THEN Return(resp.content)
        ELSE IF resp.body = "no_content" THEN Raising("KeyError", <<"message">>)
        ELSE Raising("ValueError", <<"Invalid response format from API">>)
    ELSE IF resp.status = 429 THEN Continue(Backoff(a))
    ELSE Raising("ValueError",
                 <<"API request failed with status ", resp.status>>
                 \o (IF ErrorDetail(resp) # ""
                     THEN <<": ", ErrorDetail(resp)>> ELSE <<>>))

\* a faulty body: a status that is neither 200 nor 429 is retried like a 429
TryBody_RetryOtherStatus(resp, a, limit, streaming) ==
    IF resp.kind = "timeout" THEN Raising("Timeout", <<"timed out">>)
    ELSE IF resp.kind = "connection_error"
        THEN Raising("ConnectionError", <<"connection refused">>)
    ELSE IF resp.status = 200 THEN
        IF streaming THEN Return([response |-> resp])
        ELSE IF resp.body = "not_json"
            THEN Raising(resp.json_error, <<"Expecting value">>)
        ELSE IF resp.body = "json_number"
            THEN Raising("TypeError", <<"argument of type 'int' is not iterable">>)
        ELSE IF resp.body = "ok" THEN Return(resp.content)
        ELSE IF resp.body = "no_content" THEN Raising("KeyError", <<"message">>)
        ELSE Raising("ValueError", <<"Invalid response format from API">>)
    ELSE IF a < limit - 1 THEN Continue(Backoff(a))
    ELSE IF resp.status = 429
        THEN Raising("ValueError", <<"Rate limit exceeded. Please try again later.">>)
    ELSE Raising("ValueError",
                 <<"API request failed with status ", resp.status>>
                 \o (IF ErrorDetail(resp) # ""
                     THEN <<": ", ErrorDetail(resp)>> ELSE <<>>))

\* the body of the try statement for one attempt; resp is what requests.post
\* did: raised (kind "timeout", "connection_error") or answered (kind "http")
TryBody(resp, a, limit, streaming) ==
    IF resp.kind = "timeout" THEN Raising("Timeout", <<"timed out">>)
    ELSE IF resp.kind = "connection_error"
        THEN Raising("ConnectionError", <<"connection refused">>)
    ELSE IF resp.status = 200 THEN
        IF streaming THEN Return([response |-> resp])
        ELSE IF resp.body = "not_json"
            THEN Raising(resp.json_error, <<"Expecting value">>)
        ELSE IF resp.body = "json_number"
            THEN Raising("TypeError", <<"argument of type 'int' is not iterable">>)
        ELSE IF resp.body = "ok" THEN Return(resp.content)
        ELSE IF resp.body = "no_content" THEN Raising("KeyError", <<"message">>)
        ELSE Raising("ValueError", <<"Invalid response format from API">>)
    ELSE IF resp.status = 429 THEN
        IF a < limit - 1 THEN Continue(Backoff(a))
        ELSE Raising("ValueError", <<"Rate limit exceeded. Please try again later.">>)
    ELSE Raising("ValueError",
                 <<"API request failed with status ", resp.status>>
                 \o (IF ErrorDetail(resp) # ""
                     THEN <<": ", ErrorDetail(resp)>> ELSE <<>>))

\* faulty except clauses: the last attempt is retried like the others, so
\* the loop can run out
Except_RetryOnLast(out, a, limit) ==
    IF out.do = "raise" /\ out.exc = "Timeout" THEN
        IF a < limit THEN Continue(1)
        ELSE Raising("ValueError",
                     <<"Request timeout. Please check your internet connection.">>)
    ELSE IF out.do = "raise" /\ out.exc \in RequestExceptions THEN
        IF a < limit THEN Continue(1)
        ELSE Raising("ValueError", <<"Network error: ">> \o out.msg)
    ELSE out

\* faulty except clauses: the last one catches every exception
Except_CatchAll(out, a, limit) ==
    IF out.do = "raise" /\ out.exc = "Timeout" THEN
        IF a < limit - 1 THEN Continue(1)
        ELSE Raising("ValueError",
                     <<"Request timeout. Please check your internet connection.">>)
    ELSE IF out.do = "raise" THEN
        IF a < limit - 1 THEN Continue(1)
        ELSE Raising("ValueError", <<"Network error: ">> \o out.msg)
    ELSE out

\* faulty except clauses: a timeout or transport failure backs off like a 429
Except_Doubling(out, a, limit) ==
    IF out.do = "raise" /\ out.exc = "Timeout" THEN
        IF a < limit - 1 THEN Continue(Backoff(a))
        ELSE Raising("ValueError",
                     <<"Request timeout. Please check your internet connection.">>)
    ELSE IF out.do = "raise" /\ out.exc \in RequestExceptions THEN
        IF a < limit - 1 THEN Continue(Backoff(a))
        ELSE Raising("ValueError", <<"Network error: ">> \o out.msg)
    ELSE out

\* the except clauses of the try statement, applied to what its body ended in
Except(out, a, limit) ==
    IF out.do = "raise" /\ out.exc = "Timeout" THEN
        IF a < limit - 1 THEN Continue(1)
        ELSE Raising("ValueError",
                     <<"Request timeout. Please check your internet connection.">>)
    ELSE IF out.do = "raise" /\ out.exc \in RequestExceptions THEN
        IF a < limit - 1 THEN Continue(1)
        ELSE Raising("ValueError", <<"Network error: ">> \o out.msg)
    ELSE out

\* the Authorization entry __init__ leaves for the key read from the
\* environment: set only `if self.api_key`
InitialAuthorization(key) ==
    IF key # <<>> /\ key[1] # "" THEN <<key[1]>> ELSE <<>>

\* what one request adds to the responses left open: with stream=True the
\* body is not fetched by requests.post; a 200 response is returned as it is,
\* a 429 response is left behind by `continue` or `raise`, and the response
\* of any other status is read to its end by response.json()
Acquires(resp, streaming) ==
    IF streaming /\ resp.kind = "http" /\ resp.status \in {200, 429} THEN 1 ELSE 0

\* what the backend can do with one request
Statuses == {200, 201, 429, 500}

BackendAnswers ==
    [kind : {"http"}, status : {200}, body : {"ok"}, content : {"a", "b"},
     error_detail : {""}, json_error : {"None"}]
    \cup [kind : {"http"}, status : {200},
          body : {"no_choices", "no_content", "json_number"},
          content : {""}, error_detail : {""}, json_error : {"None"}]
    \cup [kind : {"http"}, status : {200}, body : {"not_json"}, content : {""},
          error_detail : {""},
          json_error : {"RequestsJSONDecodeError", "JSONDecodeError"}]
    \cup [kind : {"http"}, status : Statuses \ {200}, body : {"error"},
          content : {""}, error_detail : {"", "overloaded"}, json_error : {"None"}]
    \cup [kind : {"http"}, status : Statuses \ {200, 429}, body : {"not_json"},
          content : {""}, error_detail : {""},
          json_error : {"RequestsJSONDecodeError", "JSONDecodeError"}]
    \cup [kind : {"timeout", "connection_error"}, status : {0}, body : {""},
          content : {""}, error_detail : {""}, json_error : {"None"}]

\* parse_code is not being called
ParserIdle ==
    /\ code = <<>>
    /\ language = "python"
    /\ astOutcome = AstOk
    /\ ppc = "idle"
    /\ presult = NoResult

\* with stream=True the body of a 200 answer is the event feed, which
\* _make_api_request does not read
StreamAnswers ==
    [kind : {"http"}, status : {200}, body : {"event_stream"}, content : {""},
     error_detail : {""}, json_error : {"None"}]
    \cup {r \in BackendAnswers : r.status # 200}

AnswersFor(streaming) == IF streaming THEN StreamAnswers ELSE BackendAnswers

InitRetry ==
    /\ ParserIdle
    /\ StreamIdle
    /\ AppIdle
    /\ api_key \in {<<>>, <<"">>, <<"sk-key">>}
    /\ max_retries \in (-1)..MaxRetries
    /\ stream \in BOOLEAN
    /\ rpc = "call"
    /\ attempt = 0
    /\ requests = 0
    /\ sleeps = <<>>
    /\ responses = <<>>
    /\ rresult = NoResult
    /\ authorization = InitialAuthorization(api_key)
    /\ acquired = 0

\* a faulty credential test: only a missing key is refused
NoKey_NoneOnly == api_key = <<>>

\* `if not self.api_key`
NoKey == api_key = <<>> \/ api_key[1] = ""

\* the credential test at the head of _make_api_request
Call ==
    /\ rpc = "call"
    /\ IF NoKey
       THEN /\ rpc' = "raised"
            /\ rresult' = Raising("ValueError", <<"OpenRouter API key not found. Please set OPENROUTER_API_KEY in your .env file.">>)
       ELSE /\ rpc' = "loop"
            /\ rresult' = rresult
    /\ UNCHANGED <<api_key, max_retries, stream, attempt, requests, sleeps, responses>>
    /\ UNCHANGED <<authorization, acquired>>
    /\ UNCHANGED <<pvars, svars, avars>>

\* one iteration of `for attempt in range(max_retries)`: one request, what
\* the backend does with it, and the sleep before the next iteration
Attempt ==
    /\ rpc = "loop"
    /\ attempt < max_retries
    /\ \E resp \in AnswersFor(stream) :
          LET out == Except(TryBody(resp, attempt, max_retries, stream),
                            attempt, max_retries)
          IN  /\ requests' = requests + 1
              /\ responses' = Append(responses, resp)
              /\ acquired' = acquired + Acquires(resp, stream)
              /\ IF out.do = "continue"
                 THEN /\ sleeps' = Append(sleeps, out.sleep)
                      /\ attempt' = attempt + 1
                      /\ UNCHANGED <<rpc, rresult>>
                 ELSE /\ rpc' = IF out.do = "return" THEN "returned" ELSE "raised"
                      /\ rresult' = out
                      /\ UNCHANGED <<sleeps, attempt>>
    /\ UNCHANGED <<api_key, max_retries, stream, authorization>>
    /\ UNCHANGED <<pvars, svars, avars>>

\* the loop ends without a return or a raise: the statement after it
LoopEnd ==
    /\ rpc = "loop"
    /\ attempt >= max_retries
    /\ rpc' = "raised"
    /\ rresult' = Raising("ValueError",
                          <<"Failed to get response after multiple retries">>)
    /\ UNCHANGED <<api_key, max_retries, stream, attempt, requests, sleeps, responses>>
    /\ UNCHANGED <<authorization, acquired>>
    /\ UNCHANGED <<pvars, svars, avars>>

NextRetry == Call \/ Attempt \/ LoopEnd

SpecRetry == InitRetry /\ [][NextRetry]_vars

\* the call is one thread of control: it takes its next step whenever it has one
SpecRetryFair == SpecRetry /\ WF_vars(NextRetry)

-----------------------------------------------------------------------------
(* LLMProcessor._make_streaming_request: the generator over the event feed *)

\* the value of max_retries when _make_api_request is called without it
DefaultMaxRetries == 3

\* a JSON value as the generator looks at it: its type and, for an object,
\* the value of 'choices' (<<>> when the key is absent, <<list>> otherwise)
JObject(choices) == [type |-> "object", choices |-> choices]

JOther(t) == [type |-> t, choices |-> <<>>]

\* an element of 'choices': the value of 'delta' (<<>> when absent)
Choice(delta) == [delta |-> delta]

\* a delta: an object with or without 'content', or null
DeltaObject(content) == [type |-> "object", content |-> content]

DeltaNull == [type |-> "null", content |-> <<>>]

\* one line of response.iter_lines(): its bytes (empty, not UTF-8, or text),
\* and for text its prefix, its payload and what json.loads makes of it
Line(bytes, prefix, payload, json) ==
    [bytes |-> bytes, prefix |-> prefix, payload |-> payload, json |-> json]

BlankLine == Line("empty", "", "", JOther("none"))

UndecodableLine == Line("invalid_utf8", "", "", JOther("none"))

CommentLine == Line("text", ": ", "OPENROUTER PROCESSING", JOther("none"))

DoneLine == Line("text", "data: ", "[DONE]", JOther("none"))

NotJsonLine == Line("text", "data: ", "{oops", JOther("none"))

JsonLine(j) == Line("text", "data: ", "json", j)

ContentLine(text) ==
    JsonLine(JObject(<< <<Choice(<<DeltaObject(<<text>>)>>)>> >>))

FeedLines ==
    {BlankLine, UndecodableLine, CommentLine, DoneLine, NotJsonLine,
     ContentLine("ab"), ContentLine("cd"),
     JsonLine(JObject(<<>>)),
     JsonLine(JObject(<< <<>> >>)),
     JsonLine(JObject(<< <<Choice(<<>>)>> >>)),
     JsonLine(JObject(<< <<Choice(<<DeltaObject(<<>>)>>)>> >>)),
     JsonLine(JObject(<< <<Choice(<<DeltaNull>>)>> >>)),
     JsonLine(JOther("number")),
     JsonLine(JOther("list"))}

\* the feeds a backend can send: the lines, and whether reading past them
\* ends the iteration or fails
Feeds == [lines : SeqsUpTo(FeedLines, MaxFeed), end : {"eof", "read_error"}]

\* what the processing of one line ends in
Yield(v) == [do |-> "yield", value |-> v]

Skip == [do |-> "skip"]

Break == [do |-> "break"]

Exhausted == [do |-> "end"]

\* json.loads(data)
json_loads(line) ==
    IF line.payload = "json" THEN Return(line.json)
    ELSE Raising("JSONDecodeError", <<"Expecting property name">>)

\* the statements under `json_data = json.loads(data)`
ExtractDelta(json_data) ==
    IF json_data.type \in {"number", "null"}
        THEN Raising("TypeError", <<"argument of type is not iterable">>)
    ELSE IF json_data.type # "object" \/ json_data.choices = <<>> THEN Skip
    ELSE IF Len(json_data.choices[1]) = 0 THEN Skip
    ELSE LET choice == json_data.choices[1][1]
             delta == IF choice.delta = <<>> THEN DeltaObject(<<>>)
                      ELSE choice.delta[1]
         IN  IF delta.type = "null"
                 THEN Raising("TypeError", <<"argument of type 'NoneType' is not iterable">>)
             ELSE IF delta.content # <<>> THEN Yield(delta.content[1])
             ELSE Skip

\* a faulty handler: the decode error is not caught
FrameExcept_Propagate(out) == out

\* `except json.JSONDecodeError: continue`
FrameExcept(out) ==
    IF out.do = "raise" /\ out.exc = "JSONDecodeError" THEN Skip ELSE out

\* the body of the for loop for one line
ProcessLine(line) ==
    IF line.bytes = "empty" THEN Skip
    ELSE IF line.bytes = "invalid_utf8"
        THEN Raising("UnicodeDecodeError", <<"invalid start byte">>)
    ELSE IF line.prefix # "data: " THEN Skip
    ELSE IF line.payload = "[DONE]" THEN Break
    ELSE LET loaded == json_loads(line)
         IN  FrameExcept(IF loaded.do = "return"
                         THEN ExtractDelta(loaded.value) ELSE loaded)

\* what the i-th turn of the loop ends in: the processing of the i-th line,
\* or the end or the failure of iter_lines() past the last line
LineOutcome(fd, i) ==
    IF i <= Len(fd.lines) THEN ProcessLine(fd.lines[i])
    ELSE IF fd.end = "eof" THEN Exhausted
    ELSE Raising("ChunkedEncodingError", <<"Connection broken">>)

\* a faulty exit: response.close() is called only when the loop ends by
\* itself, not when an exception leaves it
ClosesAfter_NoFinally(out, n) ==
    IF out.do \in {"break", "end"} THEN n + 1 ELSE n

\* `finally: response.close()`: the calls of close() so far, after a step of
\* the generator that ended in out
ClosesAfter(out, n) ==
    IF out.do \in {"break", "end", "raise"} THEN n + 1 ELSE n

InitStream ==
    /\ ParserIdle
    /\ AppIdle
    /\ api_key \in {<<>>, <<"">>, <<"sk-key">>}
    /\ max_retries = DefaultMaxRetries
    /\ stream = TRUE
    /\ rpc = "idle"
    /\ attempt = 0
    /\ requests = 0
    /\ sleeps = <<>>
    /\ responses = <<>>
    /\ rresult = NoResult
    /\ authorization = InitialAuthorization(api_key)
    /\ acquired = 0
    /\ gpc = "created"
    /\ feed = NoFeed
    /\ pos = 0
    /\ fragments = <<>>
    /\ closes = 0
    /\ gresult = NoResult

\* the consumer's first next(): the body starts with the call of
\* _make_api_request(messages, stream=True)
StartStream ==
    /\ gpc = "created"
    /\ gpc' = "running"
    /\ rpc' = "call"
    /\ UNCHANGED <<api_key, max_retries, stream, attempt, requests, sleeps,
                   responses, rresult, authorization, acquired>>
    /\ UNCHANGED <<feed, pos, fragments, closes, gresult>>
    /\ UNCHANGED <<pvars, avars>>

\* _make_api_request raised: the exception leaves the generator before the
\* try statement is entered
RequestRaised ==
    /\ gpc = "running"
    /\ rpc = "raised"
    /\ gpc' = "failed"
    /\ gresult' = rresult
    /\ UNCHANGED <<feed, pos, fragments, closes>>
    /\ UNCHANGED <<pvars, rvars, avars>>

\* response.iter_lines(): the feed of the response the request returned
OpenFeed ==
    /\ gpc = "running"
    /\ rpc = "returned"
    /\ feed = NoFeed
    /\ feed' \in Feeds
    /\ UNCHANGED <<gpc, pos, fragments, closes, gresult>>
    /\ UNCHANGED <<pvars, rvars, avars>>

\* one iteration of `for line in response.iter_lines()`, up to the yield,
\* the end of the loop or the exception that leaves it, with the finally
\* clause
ReadLine ==
    /\ gpc = "running"
    /\ rpc = "returned"
    /\ feed # NoFeed
    /\ LET out == LineOutcome(feed, pos + 1)
       IN  /\ pos' = pos + 1
           /\ closes' = ClosesAfter(out, closes)
           /\ fragments' = IF out.do = "yield"
                            THEN Append(fragments, out.value) ELSE fragments
           /\ gpc' = CASE out.do = "yield" -> "suspended"
                        [] out.do = "skip" -> "running"
                        [] out.do \in {"break", "end"} -> "done"
                        [] out.do = "raise" -> "failed"
           /\ gresult' = IF out.do = "raise" THEN out ELSE gresult
    /\ UNCHANGED feed
    /\ UNCHANGED <<pvars, rvars, avars>>

\* the consumer's next() while the generator is suspended at its yield
Resume ==
    /\ gpc = "suspended"
    /\ gpc' = "running"
    /\ UNCHANGED <<feed, pos, fragments, closes, gresult>>
    /\ UNCHANGED <<pvars, rvars, avars>>

\* the consumer stops iterating: the generator is closed (GeneratorExit is
\* raised at its yield and the finally clause runs) or, when it never
\* started, discarded
Abandon ==
    /\ gpc \in {"created", "suspended"}
    /\ gpc' = "closed"
    /\ closes' = IF gpc = "suspended"
                 THEN ClosesAfter(Raising("GeneratorExit", <<>>), closes)
                 ELSE closes
    /\ UNCHANGED <<feed, pos, fragments, gresult>>
    /\ UNCHANGED <<pvars, rvars, avars>>

\* (with the default retry limit every attempt of the loop returns, raises or
\* continues to a next one, so the statement after the loop is not reached)
NextStream ==
    \/ StartStream
    \/ Call
    \/ Attempt
    \/ RequestRaised
    \/ OpenFeed
    \/ ReadLine
    \/ Resume
    \/ Abandon

SpecStream == InitStream /\ [][NextStream]_vars

-----------------------------------------------------------------------------
(* The client's credential: __init__, set_api_key and the requests made *)

\* the keys a caller hands to set_api_key
Keys == {"", "sk-key", "sk-other"}

InitClient ==
    /\ ParserIdle
    /\ StreamIdle
    /\ AppIdle
    /\ api_key \in {<<>>, <<"">>, <<"sk-key">>}
    /\ max_retries = DefaultMaxRetries
    /\ stream \in BOOLEAN
    /\ rpc = "call"
    /\ attempt = 0
    /\ requests = 0
    /\ sleeps = <<>>
    /\ responses = <<>>
    /\ rresult = NoResult
    /\ authorization = InitialAuthorization(api_key)
    /\ acquired = 0

\* set_api_key(key), between two requests: both assignments are unconditional
SetApiKey ==
    /\ rpc \in {"call", "returned", "raised"}
    /\ \E key \in Keys :
          /\ api_key' = <<key>>
          /\ authorization' = <<key>>
    /\ UNCHANGED <<max_retries, stream, rpc, attempt, requests, sleeps, responses,
                   rresult, acquired>>
    /\ UNCHANGED <<pvars, svars, avars>>

NextClient == SetApiKey \/ Call \/ Attempt

SpecClient == InitClient /\ [][NextClient]_vars

-----------------------------------------------------------------------------
(* Whole calls: _make_api_request and a generator consumed to its end *)

\* the loop of _make_api_request from attempt a on, over the answers the
\* backend gives to the successive requests
RECURSIVE RunAttempts(_, _, _, _, _)
RunAttempts(answers, a, limit, streaming, slept) ==
    IF a >= limit
    THEN [out |-> Raising("ValueError",
                          <<"Failed to get response after multiple retries">>),
          sent |-> a, sleeps |-> slept]
    ELSE LET out == Except(TryBody(answers[a + 1], a, limit, streaming), a, limit)
         IN  IF out.do = "continue"
             THEN RunAttempts(answers, a + 1, limit, streaming,
                              Append(slept, out.sleep))
             ELSE [out |-> out, sent |-> a + 1, sleeps |-> slept]

\* one call of _make_api_request: what it ends in, the requests it sent and
\* the sleeps it took
_make_api_request(key, answers, limit, streaming) ==
    IF key = <<>> \/ key[1] = ""
    THEN [out |-> Raising("ValueError", <<"OpenRouter API key not found. Please set OPENROUTER_API_KEY in your .env file.">>),
          sent |-> 0, sleeps |-> <<>>]
    ELSE RunAttempts(answers, 0, limit, streaming, <<>>)

\* what the first n requests of a call add to the responses left open
RECURSIVE AcquiredBy(_, _, _)
AcquiredBy(answers, n, streaming) ==
    IF n = 0 THEN 0
    ELSE AcquiredBy(answers, n - 1, streaming) + Acquires(answers[n], streaming)

\* the generator's loop from its i-th turn on, resumed after every yield:
\* what ends it, the fragments yielded and the turns taken
RECURSIVE ConsumeFeed(_, _, _)
ConsumeFeed(fd, i, frags) ==
    LET out == LineOutcome(fd, i)
    IN  IF out.do = "yield" THEN ConsumeFeed(fd, i + 1, Append(frags, out.value))
        ELSE IF out.do = "skip" THEN ConsumeFeed(fd, i + 1, frags)
        ELSE [out |-> out, fragments |-> frags, read |-> i]

\* the answers and feeds the whole-call specifications draw
SomeAnswers(streaming) ==
    {r \in AnswersFor(streaming) :
        /\ r.kind \in {"http", "timeout"}
        /\ r.status \in {0, 200, 429, 500}
        /\ r.body \in {"", "ok", "event_stream", "error"}
        /\ r.content \in {"", "a"}
        /\ r.error_detail = ""}

\* runs of answers to the successive requests of one call; the backend
\* answers the second and the third request alike
AnswerRuns(streaming) ==
    {run \in [1..DefaultMaxRetries -> SomeAnswers(streaming)] : run[3] = run[2]}

BufferedRuns == AnswerRuns(FALSE)

StreamRuns == AnswerRuns(TRUE)

\* the runs in which the backend answers every request alike
SteadyRuns == {run \in StreamRuns : run[1] = run[2]}

SomeFeeds ==
    {[lines |-> <<>>, end |-> "eof"],
     [lines |-> <<ContentLine("ab"), ContentLine("cd")>>, end |-> "eof"],
     [lines |-> <<ContentLine("ab"), DoneLine>>, end |-> "eof"],
     [lines |-> <<ContentLine("ab"), JsonLine(JOther("number"))>>, end |-> "eof"],
     [lines |-> <<ContentLine("cd")>>, end |-> "read_error"]}

\* the request and generator variables after one streaming call whose
\* generator the caller consumed to its end
Streamed(answers, fd) ==
    LET req == _make_api_request(api_key, answers, max_retries, TRUE)
        ok == req.out.do = "return"
        run == ConsumeFeed(fd, 1, <<>>)
    IN  /\ rpc' = IF ok THEN "returned" ELSE "raised"
        /\ rresult' = req.out
        /\ requests' = req.sent
        /\ responses' = SubSeq(answers, 1, req.sent)
        /\ sleeps' = req.sleeps
        /\ attempt' = Len(req.sleeps)
        /\ stream' = TRUE
        /\ acquired' = AcquiredBy(answers, req.sent, TRUE)
        /\ UNCHANGED <<api_key, max_retries, authorization>>
        /\ gpc' = IF ok /\ run.out.do # "raise" THEN "done" ELSE "failed"
        /\ feed' = IF ok THEN fd ELSE NoFeed
        /\ pos' = IF ok THEN run.read ELSE 0
        /\ fragments' = IF ok THEN run.fragments ELSE <<>>
        /\ closes' = IF ok THEN ClosesAfter(run.out, 0) ELSE 0
        /\ gresult' = IF ~ok THEN req.out
                      ELSE IF run.out.do = "raise" THEN run.out ELSE NoResult

\* the request variables after one buffered call
Buffered(answers) ==
    LET req == _make_api_request(api_key, answers, max_retries, FALSE)
    IN  /\ rpc' = IF req.out.do = "return" THEN "returned" ELSE "raised"
        /\ rresult' = req.out
        /\ requests' = req.sent
        /\ responses' = SubSeq(answers, 1, req.sent)
        /\ sleeps' = req.sleeps
        /\ attempt' = Len(req.sleeps)
        /\ stream' = FALSE
        /\ acquired' = AcquiredBy(answers, req.sent, FALSE)
        /\ UNCHANGED <<api_key, max_retries, authorization>>

-----------------------------------------------------------------------------
(* LLMProcessor.process_follow_up and process_follow_up_stream *)

\* how many turns of the history a follow-up prompt holds
HistoryWindow == 6

Turn(role, content) == [role |-> role, content |-> content]

\* a history that renders every turn: no slice
last_turns_All(h) == h

\* conversation_history[-6:]
last_turns(h) ==
    IF Len(h) > HistoryWindow
    THEN SubSeq(h, Len(h) - HistoryWindow + 1, Len(h)) ELSE h

\* f"{role}: {msg['content']}\n\n" with role "User" or "DebugTutor"
RenderTurn(msg) ==
    <<IF msg.role = "user" THEN "User" ELSE "DebugTutor", ": ", msg.content, NL, NL>>

\* history_text after the loop over the slice
history_text(h) == Concat([i \in 1..Len(last_turns(h)) |-> RenderTurn(last_turns(h)[i])])

\* self.follow_up_prompt.format(...): the values of its placeholders
follow_up_prompt(question, c, h) ==
    [conversation_history |-> history_text(h), language |-> "python",
     code |-> c, question |-> question]

\* the turns and questions drawn
Turns == {Turn("user", "x"), Turn("assistant", "x"), Turn("assistant", "y")}

Questions == {"why?"}

InitFollowUp ==
    /\ ParserIdle
    /\ StreamIdle
    /\ api_key \in {<<>>, <<"sk-key">>}
    /\ max_retries = DefaultMaxRetries
    /\ stream = FALSE
    /\ rpc = "idle"
    /\ attempt = 0
    /\ requests = 0
    /\ sleeps = <<>>
    /\ responses = <<>>
    /\ rresult = NoResult
    /\ authorization = InitialAuthorization(api_key)
    /\ acquired = 0
    /\ conversation_history \in SeqsUpTo(Turns, MaxHistory)
    /\ history_before = conversation_history
    /\ prompt = NoResult
    /\ shown = "nothing"

\* process_follow_up(question, code, conversation_history), to its return or
\* its exception
ProcessFollowUp ==
    /\ prompt = NoResult
    /\ \E question \in Questions :
          prompt' = follow_up_prompt(question, code, conversation_history)
    /\ \E answers \in BufferedRuns : Buffered(answers)
    /\ history_before' = conversation_history
    /\ UNCHANGED <<conversation_history, shown>>
    /\ UNCHANGED <<pvars, svars>>

\* process_follow_up_stream(question, code, conversation_history), its
\* generator consumed to its end
ProcessFollowUpStream ==
    /\ prompt = NoResult
    /\ \E question \in Questions :
          prompt' = follow_up_prompt(question, code, conversation_history)
    /\ \E answers \in StreamRuns, fd \in SomeFeeds : Streamed(answers, fd)
    /\ history_before' = conversation_history
    /\ UNCHANGED <<conversation_history, shown>>
    /\ UNCHANGED pvars

NextFollowUp == ProcessFollowUp \/ ProcessFollowUpStream

SpecFollowUp == InitFollowUp /\ [][NextFollowUp]_vars

-----------------------------------------------------------------------------
(* The application's handlers: main and display_follow_up *)

\* config_manager.is_valid(): the key read from OPENROUTER_API_KEY is set
is_valid == api_key # <<>> /\ api_key[1] # ""

\* a faulty accumulation: `full_response = chunk`, the last fragment only
full_response_Last(frags) == IF frags = <<>> THEN "" ELSE frags[Len(frags)]

\* full_response after `full_response += chunk` for every fragment
RECURSIVE full_response(_)
full_response(frags) ==
    IF frags = <<>> THEN "" ELSE Head(frags) \o full_response(Tail(frags))

\* a faulty handler: the fragments received before a failure are recorded
\* as the assistant's turn
Recorded_KeepPartial(h, content, completed, frags) ==
    LET asked == Append(h, Turn("user", content))
    IN  IF completed \/ frags # <<>>
        THEN Append(asked, Turn("assistant", full_response(frags)))
        ELSE asked

\* the history after a handler: the user turn is appended before the try
\* block, the assistant turn after the loop over the fragments has ended
\* without an exception
Recorded(h, content, completed, frags) ==
    LET asked == Append(h, Turn("user", content))
    IN  IF completed
        THEN Append(asked, Turn("assistant", full_response(frags)))
        ELSE asked

\* one handler, from the click to st.rerun() or to st.error(): the user turn
\* `content`, the streaming call consumed by the loop, and the follow-up
\* prompt p the call built, if it is a follow-up
RunHandler(content, p) ==
    /\ Len(conversation_history) < MaxTurns
    /\ \E answers \in SteadyRuns, fd \in SomeFeeds : Streamed(answers, fd)
    /\ conversation_history' =
          Recorded(conversation_history, content, gpc' = "done", fragments')
    /\ shown' = IF gpc' = "done" THEN "response" ELSE "error"
    /\ history_before' = conversation_history
    /\ prompt' = p
    /\ UNCHANGED pvars

ExplainError ==
    /\ is_valid
    /\ RunHandler("Please explain the error in my code", NoResult)

SuggestFix ==
    /\ is_valid
    /\ RunHandler("Please suggest a fix for my code", NoResult)

AnalyzeCode ==
    /\ is_valid
    /\ RunHandler("Please analyze my code", NoResult)

OptimizeCode ==
    /\ is_valid
    /\ RunHandler("Please suggest optimizations for my code", NoResult)

\* one of the four buttons while the configuration is not valid
ConfigWarning ==
    /\ ~is_valid
    /\ shown' = "warning"
    /\ history_before' = conversation_history
    /\ UNCHANGED <<conversation_history, prompt>>
    /\ UNCHANGED <<pvars, rvars, svars>>

\* follow_up.strip() is empty
IsBlank(text) == text \in {"", " "}

\* "Send Question": shown once the history is not empty, ignored for a blank
\* question; the call is handed the history that already holds the question
FollowUp ==
    /\ conversation_history # <<>>
    /\ \E follow_up \in Questions \cup {" "} :
          /\ ~IsBlank(follow_up)
          /\ RunHandler(follow_up,
                follow_up_prompt(follow_up, code,
                    Append(conversation_history, Turn("user", follow_up))))

\* "Clear Code"
Clear ==
    /\ conversation_history # <<>>
    /\ conversation_history' = <<>>
    /\ history_before' = conversation_history
    /\ shown' = "nothing"
    /\ prompt' = NoResult
    /\ UNCHANGED <<pvars, rvars, svars>>

InitApp ==
    /\ ParserIdle
    /\ StreamIdle
    /\ AppIdle
    /\ api_key \in {<<>>, <<"sk-key">>}
    /\ max_retries = DefaultMaxRetries
    /\ stream = FALSE
    /\ rpc = "idle"
    /\ attempt = 0
    /\ requests = 0
    /\ sleeps = <<>>
    /\ responses = <<>>
    /\ rresult = NoResult
    /\ authorization = InitialAuthorization(api_key)
    /\ acquired = 0

NextApp ==
    \/ ExplainError
    \/ SuggestFix
    \/ AnalyzeCode
    \/ OptimizeCode
    \/ ConfigWarning
    \/ FollowUp
    \/ Clear

SpecApp == InitApp /\ [][NextApp]_vars

-----------------------------------------------------------------------------
(* Properties of the static checker *)

Done == ppc = "done"

\* every character of code is whitespace (or there is none)
Blank == \A i \in 1..Len(code) : code[i] \in Whitespace

\* the requested language is one of the seven, after lower-casing
Supported == lower(language) \in supported_languages

IsLang(l) == ~Blank /\ lower(language) = l

IsJs == IsLang("javascript") \/ IsLang("typescript")

\* the diagnostics of the result, errors first
Diagnostics == presult.syntax_errors \o presult.warnings

ResultKeys == {"syntax_errors", "warnings", "ast", "language", "line_count"}

\* C1: for every language identifier, parse_code of an empty or whitespace-only
\* text returns line_count 0, no syntax errors, no warnings and a null ast, and
\* the language field is the identifier as passed (no routine, which would
\* write its own name, has run).
C1_BlankShortCircuit ==
    (Done /\ Blank) =>
        /\ presult.line_count = 0
        /\ presult.syntax_errors = <<>>
        /\ presult.warnings = <<>>
        /\ presult.ast = None
        /\ presult.language = language
        /\ DOMAIN presult = ResultKeys

C1_Witness ==
    /\ Done
    /\ code = <<" ", NL, " ">>
    /\ language = "GO"
    /\ presult.line_count = 0

\* C2: parse_code never raises: for every text and language it returns a
\* dictionary with syntax_errors, warnings, ast, language and line_count, and a
\* failure of the Python parser (syntax or not) is in it as a diagnostic.
C2_Total ==
    Done =>
        /\ ~IsRaise(presult)
        /\ ResultKeys \subseteq DOMAIN presult
        /\ presult.line_count \in Nat
        /\ (IsLang("python") /\ astOutcome.kind # "ok")
              => Len(presult.syntax_errors) >= 1

C2_Witness ==
    /\ Done
    /\ IsLang("python")
    /\ astOutcome.kind = "Exception"
    /\ Len(presult.syntax_errors) = 1

\* C3: for a non-blank text and a language outside the seven (after
\* lower-casing), parse_code returns exactly one syntax error, at line 1, with
\* the kind tag UnsupportedLanguage, no warnings, and line_count = newlines + 1.
C3_UnsupportedLanguage ==
    (Done /\ ~Blank /\ ~Supported) =>
        /\ Len(presult.syntax_errors) = 1
        /\ presult.syntax_errors[1].line = 1
        /\ "type" \in DOMAIN presult.syntax_errors[1]
        /\ presult.syntax_errors[1].type = "UnsupportedLanguage"
        /\ presult.warnings = <<>>
        /\ presult.line_count = CountChar(code, NL) + 1

UnmatchedKinds == {"UnmatchedBraces", "UnmatchedParentheses", "UnmatchedBrackets"}

\* JavaScript's own reading of a text: a quote closes the string it opened
\* unless an unescaped backslash precedes it; a string ends on its line
RefStart ==
    [in_string |-> FALSE, string_char |-> None, escaped |-> FALSE,
     open |-> <<>>, ok |-> TRUE]

Closer(opener) ==
    CASE opener = "{" -> "}" [] opener = "(" -> ")" [] opener = "[" -> "]"

RefChar(st, char) ==
    IF st.in_string THEN
        IF char = NL THEN [st EXCEPT !.ok = FALSE]
        ELSE IF st.escaped THEN [st EXCEPT !.escaped = FALSE]
        ELSE IF char = BACKSLASH THEN [st EXCEPT !.escaped = TRUE]
        ELSE IF char = st.string_char
            THEN [st EXCEPT !.in_string = FALSE, !.string_char = None]
        ELSE st
    ELSE IF char \in {DQUOTE, "'", BACKTICK}
        THEN [st EXCEPT !.in_string = TRUE, !.string_char = char]
    ELSE IF char \in {"{", "(", "["} THEN [st EXCEPT !.open = Append(@, char)]
    ELSE IF char \in {"}", ")", "]"} THEN
        IF st.open # <<>> /\ Closer(st.open[Len(st.open)]) = char
        THEN [st EXCEPT !.open = SubSeq(@, 1, Len(@) - 1)]
        ELSE [st EXCEPT !.ok = FALSE]
    ELSE st

RECURSIVE RefScan(_, _)
RefScan(st, s) == IF s = <<>> THEN st ELSE RefScan(RefChar(st, Head(s)), Tail(s))

\* every opener outside a string literal has its closer, and no string is open
Balanced(s) ==
    LET st == RefScan(RefStart, s) IN st.ok /\ st.open = <<>> /\ ~st.in_string

\* C4: for JavaScript/TypeScript text whose braces, parentheses and brackets
\* are balanced outside string literals, no UnmatchedBraces,
\* UnmatchedParentheses or UnmatchedBrackets diagnostic is emitted, whatever
\* string literals and escape sequences the text holds.
C4_BalancedNoUnmatched ==
    (Done /\ IsJs /\ Balanced(code)) =>
        \A i \in 1..Len(presult.syntax_errors) :
            presult.syntax_errors[i].type \notin UnmatchedKinds

\* the counters at the end of the scan of code
Counters == ScanLines(ScanStart, split_lines(code), 1)

\* what the end of the scan must emit for a counter
Expected(kind, count) ==
    IF count = 0 THEN <<>>
    ELSE <<[type |-> kind, line |-> CountChar(code, NL) + 1,
            sign |-> IF count > 0 THEN "opening" ELSE "closing"]>>

Emitted ==
    [i \in 1..Len(presult.syntax_errors) |->
        [type |-> presult.syntax_errors[i].type,
         line |-> presult.syntax_errors[i].line,
         sign |-> presult.syntax_errors[i].message[4]]]

NoQuotes == \A i \in 1..Len(code) : code[i] \notin {DQUOTE, "'", BACKTICK}

\* C5: at the end of the JavaScript/TypeScript scan each counter that is not
\* zero has exactly one diagnostic of its kind, at the last line, saying
\* 'opening' for a positive and 'closing' for a negative counter; a zero counter
\* has none, and syntax_errors holds nothing else. In a text without quotes a
\* counter is the number of its openers minus the number of its closers.
C5_UnmatchedEmission ==
    (Done /\ IsJs) =>
        /\ Emitted = Expected("UnmatchedBraces", Counters.brace_count)
                     \o Expected("UnmatchedParentheses", Counters.paren_count)
                     \o Expected("UnmatchedBrackets", Counters.bracket_count)
        /\ presult.line_count = CountChar(code, NL) + 1
        /\ NoQuotes =>
              /\ Counters.brace_count = CountChar(code, "{") - CountChar(code, "}")
              /\ Counters.paren_count = CountChar(code, "(") - CountChar(code, ")")
              /\ Counters.bracket_count = CountChar(code, "[") - CountChar(code, "]")

C5_Witness ==
    /\ Done
    /\ IsJs
    /\ code = <<"{", NL, ")", ")">>
    /\ Len(presult.syntax_errors) = 2
    /\ presult.syntax_errors[1].line = 2

\* some line of s, without its leading whitespace, starts with 'package '
\* and goes on
HasPackageLine(s) ==
    \E a \in 1..(Len(s) - 7) :
        /\ SubSeq(s, a, a + 7) = S_package
        /\ \A k \in 1..(a - 1) : (\A m \in k..(a - 1) : s[m] # NL) => s[k] = " "
        /\ \E b \in (a + 8)..Len(s) :
              s[b] \notin Whitespace /\ \A m \in a..b : s[m] # NL

\* C6: for non-blank Go text, parse_code returns exactly one syntax error, of
\* kind MissingPackage at line 1, when no line is a package declaration, and no
\* syntax error when one is; warnings is empty either way.
C6_GoPackage ==
    (Done /\ IsLang("go")) =>
        /\ presult.warnings = <<>>
        /\ HasPackageLine(code) => presult.syntax_errors = <<>>
        /\ ~HasPackageLine(code) =>
              /\ Len(presult.syntax_errors) = 1
              /\ presult.syntax_errors[1].type = "MissingPackage"
              /\ presult.syntax_errors[1].line = 1

C6_Witness ==
    /\ Done
    /\ IsLang("go")
    /\ code = <<" ">> \o S_package \o <<"x">>
    /\ presult.syntax_errors = <<>>

\* C7: for non-blank Python text, a failed parse gives exactly one syntax error
\* (SyntaxError with the line, column and message the parser reported, 1 or
\* 'Syntax error' standing in for one it did not report; or ParseError at line
\* 1), no warnings and a null ast; a successful parse gives no syntax error and
\* an ast. For every other language the ast is null.
C7_PythonOutcome ==
    Done =>
        /\ (IsLang("python") /\ astOutcome.kind = "SyntaxError") =>
              /\ Len(presult.syntax_errors) = 1
              /\ presult.syntax_errors[1].type = "SyntaxError"
              /\ \A n \in 1..MaxLineno :
                    /\ astOutcome.lineno = <<n>> => presult.syntax_errors[1].line = n
                    /\ astOutcome.offset = <<n>> => presult.syntax_errors[1].column = n
              /\ astOutcome.lineno \in {<<>>, <<0>>} => presult.syntax_errors[1].line = 1
              /\ astOutcome.offset \in {<<>>, <<0>>} => presult.syntax_errors[1].column = 1
              /\ presult.syntax_errors[1].message =
                    IF astOutcome.msg \in {<<>>, <<"">>}
                    THEN <<"Syntax error">> ELSE astOutcome.msg
              /\ presult.warnings = <<>>
              /\ presult.ast = None
        /\ (IsLang("python") /\ astOutcome.kind = "Exception") =>
              /\ Len(presult.syntax_errors) = 1
              /\ presult.syntax_errors[1].type = "ParseError"
              /\ presult.syntax_errors[1].line = 1
              /\ presult.warnings = <<>>
              /\ presult.ast = None
        /\ (IsLang("python") /\ astOutcome.kind = "ok") =>
              /\ presult.syntax_errors = <<>>
              /\ presult.ast # None
        /\ ~IsLang("python") => presult.ast = None

C7_Witness ==
    /\ Done
    /\ IsLang("python")
    /\ astOutcome.kind = "SyntaxError"
    /\ astOutcome.lineno = <<2>>
    /\ code = <<"x", " ", "=", " ", "y">>
    /\ presult.syntax_errors[1].line = 2

\* C8: in every result of parse_code every diagnostic, error or warning, has
\* a line of at least 1, also when the Python parser reports no line or line 0.
C8_PositiveLines ==
    Done =>
        \A i \in 1..Len(Diagnostics) :
            "line" \in DOMAIN Diagnostics[i] => Diagnostics[i].line >= 1

C8_Witness ==
    /\ Done
    /\ IsLang("python")
    /\ astOutcome.kind = "SyntaxError"
    /\ astOutcome.lineno = <<0>>
    /\ presult.syntax_errors[1].line = 1

-----------------------------------------------------------------------------
(* Properties of the request loop *)

Is429(r) == r.kind = "http" /\ r.status = 429

IsOk200(r) == r.kind = "http" /\ r.status = 200 /\ r.body = "ok"

\* every request so far was answered 429
Only429 == \A i \in 1..Len(responses) : Is429(responses[i])

RateLimitExceeded ==
    Raising("ValueError", <<"Rate limit exceeded. Please try again later.">>)

\* C9: buffered, with a credential and retry limit N: when the backend answers
\* 429 k times in a row (k < N) and then 200 with a well-formed envelope, the
\* call returns choices[0].message.content after exactly k + 1 requests and
\* exactly k sleeps, of 1, 2, ..., 2^(k-1) in that order.
C9_RetryThenSuccess ==
    \A k \in 0..(max_retries - 1) :
        (/\ ~NoKey
         /\ ~stream
         /\ Len(responses) = k + 1
         /\ \A i \in 1..k : Is429(responses[i])
         /\ IsOk200(responses[k + 1]))
        => /\ rpc = "returned"
           /\ rresult = Return(responses[k + 1].content)
           /\ requests = k + 1
           /\ sleeps = [i \in 1..k |-> 2 ^ (i - 1)]

C9_Witness ==
    /\ rpc = "returned"
    /\ ~stream
    /\ Len(responses) = 3
    /\ Is429(responses[1])
    /\ Is429(responses[2])
    /\ rresult = Return("b")
    /\ sleeps = <<1, 2>>

\* C10: with retry limit N >= 1 and a backend that answers 429 to every
\* attempt, the call sends exactly N requests, sleeps exactly N - 1 times (not
\* after the last attempt), then fails with the rate-limit error, once: nothing
\* follows the failure, and the call never returns a value.
C10_RateLimitExhausted ==
    (max_retries >= 1 /\ ~NoKey /\ Only429) =>
        /\ rpc # "returned"
        /\ requests = Len(responses)
        /\ requests <= max_retries
        /\ Len(sleeps) = IF requests = max_retries THEN requests - 1 ELSE requests
        /\ rpc = "raised" <=> requests = max_retries
        /\ rpc = "raised" => rresult = RateLimitExceeded /\ ~ENABLED NextRetry

C10_Witness ==
    /\ rpc = "raised"
    /\ max_retries = 3
    /\ Only429
    /\ requests = 3
    /\ sleeps = <<1, 2>>
    /\ rresult = RateLimitExceeded

\* no credential is configured: api_key is None or the empty string
Unconfigured == api_key \in {<<>>, <<"">>}

ConfigurationError ==
    Raising("ValueError", <<"OpenRouter API key not found. Please set OPENROUTER_API_KEY in your .env file.">>)

\* C11: without a credential (api_key None or empty) a request, buffered or
\* streaming, fails with the configuration error and nothing else happens: no
\* HTTP request is sent, no sleep is taken, nothing is returned or yielded, for
\* every retry limit.
C11_NoCredential ==
    Unconfigured =>
        /\ requests = 0
        /\ responses = <<>>
        /\ sleeps = <<>>
        /\ rpc \in {"idle", "call", "raised"}
        /\ rpc = "raised" => rresult = ConfigurationError /\ ~ENABLED NextRetry
        /\ fragments = <<>>
        /\ closes = 0
        /\ gpc = "failed" => gresult = ConfigurationError

C11_Witness ==
    /\ api_key = <<"">>
    /\ max_retries = 3
    /\ stream
    /\ rpc = "raised"
    /\ rresult = ConfigurationError
    /\ requests = 0

\* a 200 answer whose envelope is malformed
MalformedEnvelope(r) ==
    /\ r.kind = "http"
    /\ r.status = 200
    /\ r.body \in {"not_json", "json_number", "no_choices", "no_content"}

ResponseFormatError ==
    Raising("ValueError", <<"Invalid response format from API">>)

\* C12: buffered: a 200 answer with a malformed envelope (body not a JSON
\* object, choices missing or empty, choices[0] without message.content) ends
\* the call on that attempt with the response-format error: it is the last
\* request, and the attempt adds no delay, whatever budget remains.
C12_MalformedEnvelope ==
    \A i \in 1..Len(responses) :
        (~stream /\ MalformedEnvelope(responses[i])) =>
            /\ Len(responses) = i
            /\ Len(sleeps) = i - 1
            /\ rpc = "raised"
            /\ rresult = ResponseFormatError

IsOtherStatus(r) == r.kind = "http" /\ r.status \notin {200, 429}

\* the request-failed error for an answer: the status, and the provider's
\* message when the body is JSON that holds one
RequestFailed(r) ==
    Raising("ValueError",
            <<"API request failed with status ", r.status>>
            \o (IF r.body = "error" /\ r.error_detail # ""
                THEN <<": ", r.error_detail>> ELSE <<>>))

\* C13: an answer with a status other than 200 and 429 ends the call on that
\* attempt with the request-failed error, which holds the status and, when the
\* body supplies one, the provider's message; it is the last request and the
\* attempt adds no delay, also when the error body is not JSON.
C13_RequestFailed ==
    \A i \in 1..Len(responses) :
        IsOtherStatus(responses[i]) =>
            /\ Len(responses) = i
            /\ requests = i
            /\ Len(sleeps) = i - 1
            /\ rpc = "raised"
            /\ rresult = RequestFailed(responses[i])
            /\ ~ENABLED NextRetry

C13_Witness ==
    /\ rpc = "raised"
    /\ max_retries = 3
    /\ Len(responses) = 2
    /\ Is429(responses[1])
    /\ responses[2].status = 500
    /\ responses[2].body = "not_json"
    /\ rresult = Raising("ValueError", <<"API request failed with status ", 500>>)
    /\ sleeps = <<1>>

IsTimeout(r) == r.kind = "timeout"

IsTransport(r) == r.kind = "connection_error"

TimeoutExceeded ==
    Raising("ValueError", <<"Request timeout. Please check your internet connection.">>)

NetworkError == Raising("ValueError", <<"Network error: ", "connection refused">>)

\* C14: an attempt that ends in a timeout or a transport failure is followed,
\* when it is not the last attempt, by a sleep of exactly 1 and the next
\* attempt; when it is the last attempt the call fails without a sleep, with
\* the timeout error for a timeout and the network error holding the cause
\* text for a transport failure.
C14_FixedDelayRetry ==
    \A i \in 1..Len(responses) :
        (IsTimeout(responses[i]) \/ IsTransport(responses[i])) =>
            IF i < max_retries
            THEN /\ Len(sleeps) >= i
                 /\ sleeps[i] = 1
                 /\ Len(responses) = i => (rpc = "loop" /\ attempt = i /\ ENABLED Attempt)
            ELSE /\ Len(responses) = i
                 /\ Len(sleeps) = i - 1
                 /\ rpc = "raised"
                 /\ rresult = IF IsTimeout(responses[i])
                               THEN TimeoutExceeded ELSE NetworkError

C14_Witness ==
    /\ rpc = "raised"
    /\ max_retries = 3
    /\ Len(responses) = 3
    /\ Is429(responses[1])
    /\ IsTimeout(responses[2])
    /\ IsTransport(responses[3])
    /\ sleeps = <<1, 1>>
    /\ rresult = NetworkError

-----------------------------------------------------------------------------
(* Properties of the streaming generator *)

IsDataFrame(l) == l.bytes = "text" /\ l.prefix = "data: "

IsTerminator(l) == IsDataFrame(l) /\ l.payload = "[DONE]"

\* the frame's payload is JSON with a content delta: choices[0].delta.content
HasDelta(l) ==
    /\ IsDataFrame(l)
    /\ l.payload = "json"
    /\ l.json.type = "object"
    /\ l.json.choices # <<>>
    /\ Len(l.json.choices[1]) > 0
    /\ l.json.choices[1][1].delta # <<>>
    /\ l.json.choices[1][1].delta[1].type = "object"
    /\ l.json.choices[1][1].delta[1].content # <<>>

DeltaOf(l) == l.json.choices[1][1].delta[1].content[1]

\* the lines before the first terminator
RECURSIVE BeforeTerminator(_)
BeforeTerminator(ls) ==
    IF ls = <<>> \/ IsTerminator(Head(ls)) THEN <<>>
    ELSE <<Head(ls)>> \o BeforeTerminator(Tail(ls))

\* the content deltas of the lines, in order
RECURSIVE Deltas(_)
Deltas(ls) ==
    IF ls = <<>> THEN <<>>
    ELSE (IF HasDelta(Head(ls)) THEN <<DeltaOf(Head(ls))>> ELSE <<>>)
         \o Deltas(Tail(ls))

IsPrefix(a, b) == Len(a) <= Len(b) /\ a = SubSeq(b, 1, Len(a))

\* the feed is delivered whole: every line decodes and the feed ends
Intact ==
    /\ feed # NoFeed
    /\ feed.end = "eof"
    /\ \A i \in 1..Len(feed.lines) : feed.lines[i].bytes # "invalid_utf8"

\* the generator has ended by itself (the consumer did not stop it)
Ended == gpc \in {"done", "failed"}

\* C15: for every event feed the fragments produced are the content deltas of
\* the data frames before the first [DONE], in arrival order, none twice and
\* none out of place; the sequence ends, nothing is produced for the
\* terminator and nothing for a frame after it.
C15_FragmentSequence ==
    /\ feed # NoFeed => IsPrefix(fragments, Deltas(BeforeTerminator(feed.lines)))
    /\ (Intact /\ Ended) =>
          /\ gpc = "done"
          /\ fragments = Deltas(BeforeTerminator(feed.lines))

\* the lines handed over so far
LinesRead ==
    SubSeq(feed.lines, 1, IF pos > Len(feed.lines) THEN Len(feed.lines) ELSE pos)

\* a data frame whose payload is not JSON
IsMalformed(l) == IsDataFrame(l) /\ l.payload \notin {"json", "[DONE]"}

\* C16: a data frame whose payload does not parse produces no fragment and no
\* failure and does not end the stream: the generator goes on to the next
\* line, and the fragments are the content deltas of all lines read so far,
\* those after the malformed frame included.
C16_MalformedSkipped ==
    \A i \in 1..Len(LinesRead) :
        IsMalformed(feed.lines[i]) =>
            /\ pos = i => (gpc = "running" /\ closes = 0 /\ ENABLED ReadLine)
            /\ fragments = Deltas(LinesRead)

C16_Witness ==
    /\ feed # NoFeed
    /\ feed.lines = <<NotJsonLine, ContentLine("ab")>>
    /\ pos = 2
    /\ gpc = "suspended"
    /\ fragments = <<"ab">>

\* a data frame whose payload parses and holds no content delta
CarriesNoDelta(l) == IsDataFrame(l) /\ l.payload = "json" /\ ~HasDelta(l)

\* C17: a data frame whose payload parses but holds no content delta (no
\* choices, empty choices, no delta, no content, or another shape: a number,
\* a list, a null delta) produces no fragment and no failure, and the
\* generator goes on to the next line.
C17_NoDeltaIgnored ==
    \A i \in 1..Len(LinesRead) :
        CarriesNoDelta(feed.lines[i]) =>
            /\ pos = i => (gpc = "running" /\ closes = 0)
            /\ Len(fragments) = Len(Deltas(LinesRead))

\* C18: once the request has returned its 200 response, response.close() is
\* called exactly once on every way out of the generator (feed exhausted,
\* terminator, the consumer stopping after any number of fragments, a failure
\* while reading, decoding or processing the feed), not before, and after it
\* the generator yields nothing.
C18_ReleasedOnce ==
    /\ closes \in {0, 1}
    /\ rpc # "returned" => closes = 0
    /\ rpc = "returned" => (closes = 1 <=> gpc \in {"done", "failed", "closed"})
    /\ closes = 1 => (~ENABLED ReadLine /\ ~ENABLED Resume /\ ~ENABLED Abandon)

C18_Witness ==
    /\ gpc = "closed"
    /\ rpc = "returned"
    /\ fragments = <<"ab">>
    /\ pos = 1
    /\ Len(feed.lines) = 2
    /\ closes = 1

-----------------------------------------------------------------------------
(* Properties of the follow-up prompt *)

\* a follow-up call has built its prompt and run its request to the end
FollowUpCalled == prompt # NoResult /\ rpc \in {"returned", "raised"}

\* the request of the follow-up call failed, or its generator did
FollowUpFailed == rpc = "raised" \/ gpc = "failed"

RoleLabels == [user |-> "User", assistant |-> "DebugTutor"]

\* C19: process_follow_up and process_follow_up_stream render into the prompt
\* exactly the last min(6, n) turns of the n-turn history, in their order,
\* each prefixed by its role, and leave the caller's history as it was
\* (same length, same turns) whether the request succeeds or fails.
C19_LastSixTurns ==
    FollowUpCalled =>
        LET n == Len(history_before)
            k == IF n < 6 THEN n ELSE 6
            text == prompt.conversation_history
        IN  /\ Len(text) = 5 * k
            /\ \A j \in 1..k :
                  LET msg == history_before[n - k + j]
                  IN  SubSeq(text, 5 * j - 4, 5 * j) =
                        <<RoleLabels[msg.role], ": ", msg.content, "\n", "\n">>
            /\ Len(conversation_history) = n
            /\ \A i \in 1..n : conversation_history[i] = history_before[i]

\* a streaming follow-up over a history of seven turns failed after a
\* fragment: six turns were rendered, the first one was not
C19_Witness ==
    /\ FollowUpCalled
    /\ stream
    /\ gpc = "failed"
    /\ fragments = <<"ab">>
    /\ Len(history_before) = 7
    /\ history_before[1] = Turn("assistant", "y")
    /\ history_before[2] = Turn("user", "x")
    /\ Len(prompt.conversation_history) = 30

\* a buffered follow-up over a history of seven turns returned its answer
C19_WitnessBuffered ==
    /\ FollowUpCalled
    /\ ~stream
    /\ rpc = "returned"
    /\ Len(history_before) = 7
    /\ Len(prompt.conversation_history) = 30

-----------------------------------------------------------------------------
(* Properties of the application's handlers *)

\* the last handler ended in its except clause
ActionFailed == shown = "error"

\* C20: when an action (explain error, suggest fix, analyze, optimize or
\* follow-up) fails before or during streaming, no assistant turn is appended
\* to conversation_history, not even one holding the fragments received so
\* far; every turn recorded before the action keeps its position and
\* content, and at most the user turn that triggered the action is added.
C20_FailureKeepsHistory ==
    ActionFailed =>
        LET n == Len(history_before)
            m == Len(conversation_history)
        IN  /\ n <= m /\ m <= n + 1
            /\ \A i \in 1..n : conversation_history[i] = history_before[i]
            /\ \A i \in (n + 1)..m : conversation_history[i].role = "user"

\* after an answered action, a follow-up failed while streaming, one
\* fragment already received
C20_Witness ==
    /\ ActionFailed
    /\ gpc = "failed"
    /\ fragments = <<"ab">>
    /\ prompt # NoResult
    /\ Len(history_before) = 2
    /\ history_before[2] = Turn("assistant", "abcd")
    /\ Len(conversation_history) = 3

\* an action failed before streaming: the request raised
C20_WitnessBefore ==
    /\ ActionFailed
    /\ rpc = "raised"
    /\ fragments = <<>>
    /\ Len(history_before) = 2
    /\ Len(conversation_history) = 3

-----------------------------------------------------------------------------
(* Further properties of the static checker *)

JsLineEnders == {";", "{", "}", ")", ","}

JsLineOpeners ==
    {<<"i", "f">>, <<"f", "o", "r">>, <<"w", "h", "i", "l", "e">>,
     <<"f", "u", "n", "c", "t", "i", "o", "n">>, <<"c", "l", "a", "s", "s">>,
     <<"/", "/">>, <<"/", "*">>}

\* the stripped line t is one the heuristic is to flag
WantsSemicolon(t) ==
    /\ Len(t) > 0
    /\ t[Len(t)] \notin JsLineEnders
    /\ \A o \in JsLineOpeners :
          Len(o) > Len(t) \/ \E k \in 1..Len(o) : t[k] # o[k]
    /\ \E k \in 1..Len(t) : t[k] = "="

\* the numbers of the lines of code the heuristic is to flag
FlaggedLines ==
    {i \in 1..Len(split_lines(code)) : WantsSemicolon(strip(split_lines(code)[i]))}

\* C21: in the JavaScript/TypeScript routine a MissingSemicolon diagnostic is
\* emitted for a line exactly when the stripped line is non-blank, does not
\* end in one of ; { } ) , does not start with a statement keyword or a
\* comment opener, and contains '='; it is placed in warnings, never in
\* syntax_errors.
C21_MissingSemicolon ==
    (Done /\ IsJs) =>
        /\ Len(presult.warnings) = Cardinality(FlaggedLines)
        /\ \A k \in 1..Len(presult.warnings) :
              /\ presult.warnings[k].type = "MissingSemicolon"
              /\ presult.warnings[k].line \in FlaggedLines
              /\ k > 1 => presult.warnings[k - 1].line < presult.warnings[k].line
        /\ \A k \in 1..Len(presult.syntax_errors) :
              presult.syntax_errors[k].type # "MissingSemicolon"

\* `x=1` on the first line is flagged and the unmatched parenthesis of the
\* second line is the only error
C21_Witness ==
    /\ Done
    /\ IsJs
    /\ code = <<"x", "=", "1", NL, ")">>
    /\ Len(presult.warnings) = 1
    /\ presult.warnings[1].line = 1
    /\ Len(presult.syntax_errors) = 1

\* a line that starts with a statement keyword is not flagged
C21_WitnessKeyword ==
    /\ Done
    /\ IsJs
    /\ code = <<"i", "f", "=">>
    /\ presult.warnings = <<>>

\* how many backslashes stand in a row at the end of s
RECURSIVE BackslashRun(_)
BackslashRun(s) ==
    IF s = <<>> \/ s[Len(s)] # BACKSLASH THEN 0
    ELSE 1 + BackslashRun(SubSeq(s, 1, Len(s) - 1))

\* the scan's variables just before the character at index j of line i
ScanBefore(lines, i, j) ==
    ScanLine(ScanLines(ScanStart, SubSeq(lines, 1, i - 1), 1),
             SubSeq(lines[i], 1, j - 1), 1)

\* C22: in the JavaScript/TypeScript scan, while inside a string literal a
\* character equal to the opening quote closes the string exactly when no
\* unescaped backslash precedes it: after one backslash it does not close,
\* after an escaped backslash (two backslashes) it does; the string state
\* carries over a line boundary and a quote at the start of a line closes.
C22_QuoteCloses ==
    (Done /\ IsJs) =>
        LET lines == split_lines(code) IN
        \A i \in 1..Len(lines) : \A j \in 1..Len(lines[i]) :
            LET before == ScanBefore(lines, i, j)
                after == ScanChar(before, lines[i], j)
            IN  (before.in_string /\ lines[i][j] = before.string_char) =>
                    (~after.in_string <=>
                        BackslashRun(SubSeq(lines[i], 1, j - 1)) % 2 = 0)

\* how many characters of the text stand before line i (from 1) of lines
RECURSIVE LineStart(_, _)
LineStart(lines, i) ==
    IF i = 1 THEN 0 ELSE LineStart(lines, i - 1) + Len(lines[i - 1]) + 1

\* the names on the right-hand side of line i that are to be reported: not
\* excluded, and without a `name =` in the text before the line
ToReport(c, i) ==
    LET lines == split_lines(c)
        t == strip(lines[i])
        earlier == SubSeq(c, 1, LineStart(lines, i))
    IN  IF contains(t, <<"=">>) /\ ~startswith(t, <<"#">>)
        THEN SelectSeq(findall_names(strip(AfterFirst(t, <<"=">>))),
                LAMBDA name :
                    /\ name \notin Builtins
                    /\ ~contains(earlier, name \o <<" ", "=">>))
        ELSE <<>>

\* the UndefinedVariable warnings to expect from line i on, as <<line, name>>
RECURSIVE ReportsFrom(_, _)
ReportsFrom(c, i) ==
    IF i > Len(split_lines(c)) THEN <<>>
    ELSE [k \in 1..Len(ToReport(c, i)) |-> <<i, ToReport(c, i)[k]>>]
         \o ReportsFrom(c, i + 1)

\* the UndefinedVariable warnings of the result, as <<line, name>>
UndefinedReported ==
    LET w == SelectSeq(presult.warnings, LAMBDA d : d.type = "UndefinedVariable")
    IN  [k \in 1..Len(w) |-> <<w[k].line, w[k].message[2]>>]

\* C23: for Python input that parses, an UndefinedVariable warning is emitted
\* for a name on the right-hand side of an assignment line exactly when the
\* name is not in the builtin exclusion list and no `name =` occurs anywhere
\* earlier in the text than that line, also when the line's text occurs more
\* than once in the input.
C23_UndefinedVariable ==
    (Done /\ IsLang("python") /\ astOutcome = AstOk) =>
        UndefinedReported = ReportsFrom(code, 1)

-----------------------------------------------------------------------------
(* Further properties of the request loop *)

\* how many of the first n requests were answered 429
RECURSIVE Count429(_)
Count429(n) ==
    IF n = 0 THEN 0 ELSE Count429(n - 1) + (IF Is429(responses[n]) THEN 1 ELSE 0)

\* C24 as stated: within one call the first delay taken after a 429 is 1 and
\* each later 429 delay is twice the previous 429 delay, whatever timeouts or
\* transport failures occur before or between the 429 responses.
C24_DoublesFromOne ==
    \A k \in 1..Len(sleeps) :
        Is429(responses[k]) => sleeps[k] = 2 ^ Count429(k - 1)

\* C24 amended: the delay taken after a 429 at the k-th attempt of the call
\* is 2^(k-1), every earlier attempt counted whatever its outcome; when only
\* 429 responses came before, that is 1 for the first and twice the previous
\* delay for each later one.
C24_DoublesPerAttempt ==
    \A k \in 1..Len(sleeps) :
        Is429(responses[k]) =>
            /\ sleeps[k] = 2 ^ (k - 1)
            /\ Count429(k - 1) = k - 1 =>
                  (IF k = 1 THEN sleeps[k] = 1 ELSE sleeps[k] = 2 * sleeps[k - 1])

\* a timeout, then a 429: the first rate-limit delay is 2
C24_Witness ==
    /\ max_retries = 3
    /\ Len(responses) >= 2
    /\ IsTimeout(responses[1])
    /\ Is429(responses[2])
    /\ sleeps = <<1, 2>>

RetriesExhausted ==
    Raising("ValueError", <<"Failed to get response after multiple retries">>)

\* C25: the generic failure 'Failed to get response after multiple retries'
\* is raised only when the retry loop ends without returning or raising: for
\* every retry limit >= 1 and every sequence of backend outcomes that never
\* happens, and for a retry limit of 0 or less (with a credential) it is
\* raised without any request being sent.
C25_RetriesExhausted ==
    /\ max_retries >= 1 =>
          /\ ~ENABLED LoopEnd
          /\ rresult # RetriesExhausted
          /\ rpc = "loop" => ENABLED Attempt
    /\ (max_retries <= 0 /\ ~NoKey) =>
          /\ requests = 0
          /\ responses = <<>>
          /\ sleeps = <<>>
          /\ ~ENABLED Attempt
          /\ rpc = "loop" => ENABLED LoopEnd
          /\ rpc = "raised" => rresult = RetriesExhausted

C25_Witness ==
    /\ max_retries = 0
    /\ api_key = <<"sk-key">>
    /\ rpc = "raised"
    /\ rresult = RetriesExhausted
    /\ requests = 0

\* C26: after construction and after any sequence of set_api_key calls (an
\* empty key included) the headers carry an Authorization bearer entry if and
\* only if a credential is configured, by the test _make_api_request applies,
\* and the token of the entry is the current api_key.
C26_BearerIffCredential ==
    /\ authorization # <<>> <=> ~NoKey
    /\ authorization # <<>> => authorization = api_key

\* C27: for every non-blank input and every supported language, the language
\* field of the result of parse_code is the requested identifier lower-cased
\* (python, javascript, typescript, cpp, java, go or rust) and line_count is
\* the number of newline characters of the code plus 1.
C27_LanguageEcho ==
    (Done /\ ~Blank /\ Supported) =>
        /\ presult.language = lower(language)
        /\ presult.line_count = CountChar(code, NL) + 1

\* the same for every supported language but typescript
C27_LanguageEchoButTypescript ==
    (Done /\ ~Blank /\ Supported /\ lower(language) # "typescript") =>
        /\ presult.language = lower(language)
        /\ presult.line_count = CountChar(code, NL) + 1

\* the call has returned or raised
CallEnded == rpc \in {"returned", "raised"}

\* the failure that matches an attempt outcome
FailureFor(r) ==
    IF Is429(r) THEN RateLimitExceeded
    ELSE IF IsTimeout(r) THEN TimeoutExceeded
    ELSE NetworkError

\* one budget for all failure kinds, sleeps only between two attempts, and the
\* failure of the final attempt
SharedBudget ==
    (max_retries >= 1 /\ ~NoKey) =>
        /\ requests = Len(responses)
        /\ requests <= max_retries
        /\ rpc = "loop" => (Len(sleeps) = requests /\ requests < max_retries)
        /\ (CallEnded /\ requests >= 1) => Len(sleeps) = requests - 1
        /\ (/\ rpc = "raised"
            /\ requests = max_retries
            /\ Is429(responses[requests]) \/ IsTimeout(responses[requests])
                  \/ IsTransport(responses[requests]))
           => rresult = FailureFor(responses[requests])

\* C28: for retry limit N >= 1 and every sequence of attempt outcomes mixing
\* 429 responses, timeouts and transport failures, the call terminates after
\* at most N requests in total (one budget for all failure kinds), sleeps only
\* between two attempts and never after the final one, and on exhaustion
\* raises the failure that matches the outcome of the final attempt.
C28_SharedBudget == []SharedBudget /\ <>CallEnded

\* a timeout, a transport failure and a 429: three requests, two sleeps, the
\* rate-limit failure
C28_Witness ==
    /\ max_retries = 3
    /\ rpc = "raised"
    /\ requests = 3
    /\ IsTimeout(responses[1])
    /\ IsTransport(responses[2])
    /\ Is429(responses[3])
    /\ sleeps = <<1, 1>>
    /\ rresult = RateLimitExceeded

-----------------------------------------------------------------------------
(* Further properties of the streaming request *)

\* the responses obtained in streaming mode that nothing has released yet
Unreleased == acquired - closes

\* C29: in streaming mode at most one backend response is held open at any
\* time during one action: a response that leads to a retry (429) or to a
\* failure (another status) is released before the next attempt is sent or
\* the error propagates, so when the action ends by completion, abandonment
\* or failure no response obtained during the retry loop is left unreleased.
C29_OneResponseHeld ==
    /\ Unreleased \in {0, 1}
    /\ rpc = "loop" => Unreleased = 0
    /\ gpc \in {"done", "failed", "closed"} => Unreleased = 0

\* the same when the backend never answers 429
C29_HeldWithout429 ==
    (\A i \in 1..Len(responses) : ~Is429(responses[i])) => C29_OneResponseHeld

-----------------------------------------------------------------------------
(* Further properties of the application's handlers *)

\* the last handler ran to its end: the stream was consumed without a failure
ActionSucceeded == shown = "response"

\* the first n fragments joined, in order
RECURSIVE Joined(_, _)
Joined(frags, n) == IF n = 0 THEN "" ELSE Joined(frags, n - 1) \o frags[n]

\* C30: after any sequence of actions (successful or failed), follow-up
\* questions and clears, every assistant turn of conversation_history is
\* immediately preceded by a user turn, and each successful action appends
\* exactly one user turn followed by exactly one assistant turn whose content
\* is the concatenation, in order, of all fragments the stream yielded.
C30_TurnsPaired ==
    /\ \A i \in 1..Len(conversation_history) :
          conversation_history[i].role = "assistant" =>
              (i > 1 /\ conversation_history[i - 1].role = "user")
    /\ ActionSucceeded =>
          LET n == Len(history_before) IN
          /\ Len(conversation_history) = n + 2
          /\ \A i \in 1..n : conversation_history[i] = history_before[i]
          /\ conversation_history[n + 1].role = "user"
          /\ conversation_history[n + 2].role = "assistant"
          /\ conversation_history[n + 2].content = Joined(fragments, Len(fragments))

\* after a failed action, a follow-up is answered in two fragments
C30_Witness ==
    /\ ActionSucceeded
    /\ prompt # NoResult
    /\ fragments = <<"ab", "cd">>
    /\ Len(history_before) = 1
    /\ conversation_history[2] = Turn("user", "why?")
    /\ conversation_history[3] = Turn("assistant", "abcd")

====
